---- MODULE Spec2Model ----
(***************************************************************************)
(* ClassPoll: the client of src/App.tsx (local cache, optimistic mutation  *)
(* handlers, loader, access filter, notification deriver) together with    *)
(* the remote store it talks to.                                           *)
(*                                                                         *)
(* Time is counted in ticks, TicksPerHour of them to the hour, so that     *)
(* date-fns' truncation to whole hours and whole days is visible.  A       *)
(* behaviour spans less than one tick: the clock reading `now` is drawn in *)
(* the initial state and every `new Date()` of the behaviour reads it.     *)
(*                                                                         *)
(* A remote call is in flight from the moment its handler issues it until  *)
(* RemoteOk (the store applies it; the handler's continuation does nothing *)
(* more) or the handler's failure action (the store leaves the table       *)
(* alone; the handler's catch block runs).  Calls land in any order.       *)
(*                                                                         *)
(* Payload-only fields (subject, meetLink, startTime, durationMinutes,     *)
(* room, notes, type, content, description) are carried by the handlers    *)
(* exactly like `title`; the records below keep `title` to stand for them. *)
(***************************************************************************)
EXTENDS Integers, Sequences, FiniteSets, TLC

VARIABLES
  currentUser,     \* useState<User | null>                 App.tsx:27
  currentView,     \* useState<ViewState>('DASHBOARD')      App.tsx:28
  viewHistory,     \* useState<ViewState[]>                 App.tsx:29
  users,           \* useState<User[]>                      App.tsx:32
  announcements,   \* useState<Announcement[]>              App.tsx:33
  exams,           \* useState<Exam[]>                      App.tsx:34
  polls,           \* useState<Poll[]>                      App.tsx:35
  resources,       \* useState<Resource[]>                  App.tsx:36
  schoolSettings,  \* useState<SchoolSettings>              App.tsx:37
  classGroups,     \* useState<ClassGroup[]>                App.tsx:38
  isLoading,       \* useState(true)                        App.tsx:40
  dbError,         \* useState<string | null>               App.tsx:41
  session,         \* localStorage['classpoll_session']
  db,              \* the remote store: one sequence of rows per table
  calls,           \* remote mutations in flight
  fetches,         \* running fetchData invocations: the await each is at
  nOps,            \* user actions taken so far
  now,             \* the clock reading
  last,            \* the handler the user has just invoked, its arguments and locals
  failedCreates,   \* ids whose remote insert has failed
  chosen           \* per poll, the option the current user chose last, and
                   \* whether the local polls were replaced since

vars == <<currentUser, users, announcements, exams, polls, resources,
          schoolSettings, classGroups, isLoading, dbError, session, db,
          calls, fetches, nOps, now, last, failedCreates, chosen,
          currentView, viewHistory>>

cacheVars == <<currentUser, users, announcements, exams, polls, resources,
               schoolSettings, classGroups, isLoading, dbError, session>>

-----------------------------------------------------------------------------
(* Bounds *)

MaxOps == 3
MaxFetch == 1
MaxOptions == 3
TicksPerHour == 2

(* Program constants *)

NotifyDays == 7
NotifyHours == 48
PollLifetimeDays == 7

Hour == TicksPerHour
Day == 24 * TicksPerHour

-----------------------------------------------------------------------------
(* Values *)

None == "none"              \* null / undefined of a string-valued field
NoUser == [id |-> None]     \* currentUser === null
NoOpt == <<-1, -1>>         \* userVotes[uid] === undefined

ADMIN == "ADMIN"
RESPONSABLE == "RESPONSABLE"
ELEVE == "ELEVE"

EmptyMap == [u \in {} |-> NoOpt]

DEFAULT_ADMIN ==
  [id |-> "admin-init", name |-> "Administrateur Principal",
   email |-> "faye@eco.com", password |-> "passer25", role |-> ADMIN,
   classGroup |-> None]

DefaultSettings == [schoolName |-> "ClassPoll+", themeColor |-> "indigo", logoUrl |-> None]

-----------------------------------------------------------------------------
(* Sequence helpers: Array.prototype.filter / map / find / reduce *)

RECURSIVE SumVotes(_)
SumVotes(opts) ==
  IF opts = <<>> THEN 0 ELSE Head(opts).votes + SumVotes(Tail(opts))

Ids(coll) == {coll[i].id : i \in 1..Len(coll)}

HasId(coll, id) == \E i \in 1..Len(coll) : coll[i].id = id

\* coll.find(x => x.id === id); callers test HasId first
FindById(coll, id) == coll[CHOOSE i \in 1..Len(coll) : coll[i].id = id /\ \A j \in 1..(i-1) : coll[j].id # id]

\* prev.filter(x => x.id !== id)
RemoveId(coll, id) == SelectSeq(coll, LAMBDA x : x.id # id)

\* A replacement that is not made
ReplaceByIdSkipped(coll, item) == coll

\* prev.map(x => x.id === item.id ? item : x)
ReplaceById(coll, item) == [i \in 1..Len(coll) |-> IF coll[i].id = item.id THEN item ELSE coll[i]]

\* { ...row, ...patch }
Merge(row, patch) ==
  [f \in DOMAIN row \cup DOMAIN patch |-> IF f \in DOMAIN patch THEN patch[f] ELSE row[f]]

\* Stable insertion sort of <<key, item>> pairs by ascending key: the order
\* Array.prototype.sort gives for the comparator (a, b) => key(a) - key(b).
RECURSIVE InsertAsc(_, _)
InsertAsc(x, sorted) ==
  IF sorted = <<>> THEN <<x>>
  ELSE IF Head(sorted)[1] <= x[1]
       THEN <<Head(sorted)>> \o InsertAsc(x, Tail(sorted))
       ELSE <<x>> \o sorted

RECURSIVE SortAsc(_)
SortAsc(s) ==
  IF s = <<>> THEN <<>>
  ELSE InsertAsc(s[Len(s)], SortAsc(SubSeq(s, 1, Len(s) - 1)))

-----------------------------------------------------------------------------
(* The remote store's rows (snake_case columns) and the loader's mapping    *)
(* of them to the cache's records (camelCase fields), App.tsx:76-171.       *)

ClassNames == <<"10A", "10B", "10C">>
NameRank(n) == CHOOSE i \in 1..Len(ClassNames) : ClassNames[i] = n

\* .order('name')
OrderByName(rows) ==
  LET sorted == SortAsc([i \in 1..Len(rows) |-> <<NameRank(rows[i].name), rows[i]>>])
  IN  [i \in 1..Len(rows) |-> sorted[i][2]]

MapUser(u) ==
  [id |-> u.id, name |-> u.name, email |-> u.email, password |-> u.password,
   role |-> u.role, classGroup |-> u.class_group]

\* A mapping that looks the author's name up among the local users
MapAnnouncementJoined(a) ==
  [id |-> a.id, title |-> a.title, date |-> a.date, isUrgent |-> a.is_urgent,
   targetClass |-> a.target_class, authorId |-> a.author_id,
   authorName |-> IF HasId(users, a.author_id)
                  THEN FindById(users, a.author_id).name
                  ELSE "?"]

MapAnnouncement(a) ==
  [id |-> a.id, title |-> a.title, date |-> a.date, isUrgent |-> a.is_urgent,
   targetClass |-> a.target_class, authorId |-> a.author_id,
   authorName |-> a.author_name]

MapExam(e) ==
  [id |-> e.id, title |-> e.title, date |-> e.date,
   targetClass |-> e.target_class, createdById |-> e.created_by_id]

\* A normalisation that gives every user of an old array an entry
VotesMapFromArray(v) ==
  IF v.kind = "map" THEN v.map
  ELSE [u \in {v.arr[i] : i \in 1..Len(v.arr)} |-> <<0, 1>>]

\* voted_user_ids is stored as a mapping, as an array (the old format) or not
\* at all: p.voted_user_ids && !Array.isArray(p.voted_user_ids) ? it : {}
VotesMap(v) == IF v.kind = "map" THEN v.map ELSE EmptyMap

\* p.options || [], App.tsx:156: a row may lack the column's value
OptionsOf(p) == IF "options" \in DOMAIN p THEN p.options ELSE <<>>

MapPoll(p) ==
  [id |-> p.id, title |-> p.title, options |-> OptionsOf(p),
   isAnonymous |-> p.is_anonymous, createdAt |-> p.created_at,
   expiresAt |-> p.expires_at, targetClass |-> p.target_class,
   createdById |-> p.created_by_id, userVotes |-> VotesMap(p.voted_user_ids)]

MapResource(r) ==
  [id |-> r.id, title |-> r.title, targetClass |-> r.target_class,
   createdAt |-> r.created_at, createdById |-> r.created_by_id]

MapSettings(r) ==
  [schoolName |-> IF r.school_name = None THEN "ClassPoll+" ELSE r.school_name,
   themeColor |-> IF r.theme_color = None THEN "indigo" ELSE r.theme_color,
   logoUrl |-> r.logo_url]

StoredMap(m) == [kind |-> "map", map |-> m, arr |-> <<>>]
StoredArray(a) == [kind |-> "array", map |-> EmptyMap, arr |-> a]
StoredNull == [kind |-> "null", map |-> EmptyMap, arr |-> <<>>]

AdminRow ==
  [id |-> DEFAULT_ADMIN.id, name |-> DEFAULT_ADMIN.name,
   email |-> DEFAULT_ADMIN.email, password |-> DEFAULT_ADMIN.password,
   role |-> DEFAULT_ADMIN.role, class_group |-> None]

-----------------------------------------------------------------------------
(* localStorage['classpoll_session'] *)

NoSession == [kind |-> "none", user |-> NoUser]
StoredSession(u) == [kind |-> "user", user |-> u]
GarbageSession == [kind |-> "garbage", user |-> NoUser]

\* A restoration that trusts the stored record
RestoredUserTrusted(cur, sess, mappedUsers) ==
  IF sess.kind = "user" THEN sess.user ELSE cur

\* Session restoration, App.tsx:95-110: what currentUser and the stored key
\* become, given the users just loaded.
RestoredUser(cur, sess, mappedUsers) ==
  IF sess.kind = "user" /\ HasId(mappedUsers, sess.user.id)
  THEN FindById(mappedUsers, sess.user.id)
  ELSE cur

RestoredSession(sess, mappedUsers) ==
  IF sess.kind = "none" THEN sess
  ELSE IF sess.kind = "user" /\ HasId(mappedUsers, sess.user.id) THEN sess
  ELSE NoSession

-----------------------------------------------------------------------------
(* Initial content of the remote store *)

Opt(stamp, idx) == <<stamp, idx>>      \* `opt-${Date.now()}-${idx}`

UserRow(id, role, class) ==
  [id |-> id, name |-> id, email |-> id, password |-> "pw", role |-> role,
   class_group |-> class]

SeedUsers ==
  << AdminRow, UserRow("r1", RESPONSABLE, "10A"), UserRow("s1", ELEVE, "10A"),
     UserRow("s2", ELEVE, "10B") >>

SeedClasses == << [id |-> 1, name |-> "10B"], [id |-> 2, name |-> "10A"] >>

AnnRow(id, date, urgent, class) ==
  [id |-> id, title |-> "T1", date |-> date, is_urgent |-> urgent,
   target_class |-> class, author_id |-> "admin-init",
   author_name |-> "Administrateur Principal"]

ExamRow(id, date, class) ==
  [id |-> id, title |-> "T1", date |-> date, target_class |-> class,
   created_by_id |-> "r1"]

PollRow(id, createdAt, class, counts, ledger) ==
  [id |-> id, title |-> "T1",
   options |-> [i \in 1..Len(counts) |-> [id |-> Opt(0, i), text |-> "a", votes |-> counts[i]]],
   is_anonymous |-> FALSE, created_at |-> createdAt,
   expires_at |-> createdAt + PollLifetimeDays * Day, target_class |-> class,
   created_by_id |-> "r1", voted_user_ids |-> ledger]

ResourceRow(id, createdAt, class) ==
  [id |-> id, title |-> "T1", target_class |-> class, created_at |-> createdAt,
   created_by_id |-> "r1"]

Store(classes, anns, exs, pls) ==
  [school_settings |-> <<>>, class_groups |-> classes, users |-> SeedUsers,
   announcements |-> anns, exams |-> exs, polls |-> pls,
   resources |-> << ResourceRow(41, 0, None) >>, has_resources |-> TRUE]

\* One poll of three options on which s2 has voted, one announcement, no
\* class group defined yet.
EngineStore ==
  Store(<<>>, << AnnRow(11, 0, FALSE, None) >>,
        << ExamRow(21, Day, None) >>,
        << PollRow(31, 0, None, <<1, 0, 0>>, StoredMap([u \in {"s2"} |-> Opt(0, 1)])) >>)

-----------------------------------------------------------------------------
(* Initial state: the component is mounted and the effect of App.tsx:182   *)
(* has called fetchData, whose synchronous prefix (App.tsx:52-53) has run. *)

NoLast ==
  [op |-> "none", id |-> 0, uid |-> None, opt |-> NoOpt, prev |-> NoOpt,
   cause |-> None, failed |-> {}, alert |-> None, error |-> None, typed |-> <<>>]

\* A running fetchData: who called it, the await it is at and, for the load
\* of the mount, the selects of it that have come back with an error so far
Fetch(fid, cause, pc, failed) ==
  [fid |-> fid, cause |-> cause, pc |-> pc, failed |-> failed]

Mounted ==
  /\ currentUser = NoUser
  /\ users = <<>>
  /\ announcements = <<>>
  /\ exams = <<>>
  /\ polls = <<>>
  /\ resources = <<>>
  /\ schoolSettings = DefaultSettings
  /\ classGroups = <<>>
  /\ isLoading = TRUE
  /\ dbError = None
  /\ calls = {}
  /\ fetches = {Fetch(0, "mount", "settings", {})}
  /\ nOps = 0
  /\ last = NoLast
  /\ failedCreates = {}
  /\ chosen = EmptyMap
  /\ currentView = "DASHBOARD"
  /\ viewHistory = <<>>

\* The browser holds no session
ClientInit == Mounted /\ session = NoSession

\* A store nobody has used yet: the loader bootstraps the administrator.
FreshStore ==
  [school_settings |-> <<>>, class_groups |-> <<>>, users |-> <<>>,
   announcements |-> <<>>, exams |-> <<>>, polls |-> <<>>, resources |-> <<>>,
   has_resources |-> FALSE]

Init ==
  /\ ClientInit
  /\ db \in {EngineStore, FreshStore}
  /\ now = 0

-----------------------------------------------------------------------------
(* fetchData, App.tsx:51-180: one action per await.  A select reads the    *)
(* table when its response is handled.                                     *)

FetchError == "Erreur de connexion"

\* The local polls are replaced as a whole: by the rows just loaded, or by a
\* snapshot
Replaced(ch) == [p \in DOMAIN ch |-> <<ch[p][1], TRUE>>]

\* finally, App.tsx:177-179: the load is over; `failed` are the selects of it
\* that came back with an error
FetchEnd(f, failed) ==
  /\ isLoading' = FALSE
  /\ fetches' = fetches \ {f}
  /\ last' = [NoLast EXCEPT !.op = "loadEnd", !.id = f.fid, !.cause = f.cause,
                            !.failed = failed]

\* A throw that ends the load and sets no error
FetchFatalUnreported(f, table) ==
  /\ dbError' = dbError
  /\ FetchEnd(f, f.failed \cup {table})

\* throw, catch and finally, App.tsx:73, 114, 127, 139, 174-179
FetchFatal(f, table) ==
  /\ dbError' = FetchError
  /\ FetchEnd(f, f.failed \cup {table})

\* On to the next await; `failed` are the selects that failed in this step
FetchGoto(f, pc, failed) ==
  /\ fetches' = (fetches \ {f}) \cup
                   {Fetch(f.fid, f.cause, pc,
                          IF f.cause = "mount" THEN f.failed \cup failed ELSE f.failed)}
  /\ last' = NoLast

\* App.tsx:56-64: the error of the select is not looked at
FetchSettings(f) ==
  /\ f \in fetches /\ f.pc = "settings"
  /\ \E ok \in BOOLEAN :
       /\ schoolSettings' =
            IF ok /\ Len(db.school_settings) = 1
            THEN MapSettings(db.school_settings[1])
            ELSE schoolSettings
       /\ FetchGoto(f, "classes", IF ok THEN {} ELSE {"school_settings"})
  /\ UNCHANGED <<currentUser, users, announcements, exams, polls, resources,
                 classGroups, isLoading, dbError, session, db, calls, nOps, now,
                 failedCreates, chosen,
                 currentView, viewHistory>>

\* App.tsx:66-69: the error of the select is not looked at
FetchClasses(f) ==
  /\ f \in fetches /\ f.pc = "classes"
  /\ \E ok \in BOOLEAN :
       /\ classGroups' = IF ok THEN OrderByName(db.class_groups) ELSE classGroups
       /\ FetchGoto(f, "users", IF ok THEN {} ELSE {"class_groups"})
  /\ UNCHANGED <<currentUser, users, announcements, exams, polls, resources,
                 schoolSettings, isLoading, dbError, session, db, calls, nOps, now,
                 failedCreates, chosen,
                 currentView, viewHistory>>

\* The users loaded are added to the users held
FetchSetUsersAppending(mappedUsers) ==
  /\ users' = users \o mappedUsers
  /\ currentUser' = RestoredUser(currentUser, session, mappedUsers)
  /\ session' = RestoredSession(session, mappedUsers)

\* App.tsx:93-110: setUsers(mappedUsers) and the session restoration
FetchSetUsers(mappedUsers) ==
  /\ users' = mappedUsers
  /\ currentUser' = RestoredUser(currentUser, session, mappedUsers)
  /\ session' = RestoredSession(session, mappedUsers)

\* App.tsx:72-93
FetchUsers(f) ==
  /\ f \in fetches /\ f.pc = "users"
  /\ \/ /\ FetchFatal(f, "users")
        /\ UNCHANGED <<users, currentUser, session,
                 currentView, viewHistory>>
     \/ /\ db.users = <<>>
        /\ FetchGoto(f, "initAdmin", {})
        /\ UNCHANGED <<users, currentUser, session, dbError, isLoading,
                 currentView, viewHistory>>
     \/ /\ db.users # <<>>
        /\ FetchSetUsers([i \in 1..Len(db.users) |-> MapUser(db.users[i])])
        /\ FetchGoto(f, "announcements", {})
        /\ UNCHANGED <<dbError, isLoading,
                 currentView, viewHistory>>
  /\ UNCHANGED <<announcements, exams, polls, resources, schoolSettings,
                 classGroups, db, calls, nOps, now, failedCreates, chosen,
                 currentView, viewHistory>>

\* App.tsx:82-93: the insert of the default administrator has returned; its
\* error is logged and the load goes on
FetchInitAdmin(f) ==
  /\ f \in fetches /\ f.pc = "initAdmin"
  /\ \/ /\ ~HasId(db.users, AdminRow.id)
        /\ db' = [db EXCEPT !.users = Append(@, AdminRow)]
        /\ FetchSetUsers(<<DEFAULT_ADMIN>>)
     \/ /\ UNCHANGED db
        /\ FetchSetUsers(<<>>)
  /\ FetchGoto(f, "announcements", {})
  /\ UNCHANGED <<announcements, exams, polls, resources, schoolSettings,
                 classGroups, isLoading, dbError, calls, nOps, now, failedCreates, chosen,
                 currentView, viewHistory>>

\* App.tsx:113-123
FetchAnnouncements(f) ==
  /\ f \in fetches /\ f.pc = "announcements"
  /\ \/ /\ FetchFatal(f, "announcements")
        /\ UNCHANGED announcements
     \/ /\ announcements' = [i \in 1..Len(db.announcements) |-> MapAnnouncement(db.announcements[i])]
        /\ FetchGoto(f, "exams", {})
        /\ UNCHANGED <<dbError, isLoading,
                 currentView, viewHistory>>
  /\ UNCHANGED <<currentUser, users, exams, polls, resources, schoolSettings,
                 classGroups, session, db, calls, nOps, now, failedCreates, chosen,
                 currentView, viewHistory>>

\* App.tsx:126-135
FetchExams(f) ==
  /\ f \in fetches /\ f.pc = "exams"
  /\ \/ /\ FetchFatal(f, "exams")
        /\ UNCHANGED exams
     \/ /\ exams' = [i \in 1..Len(db.exams) |-> MapExam(db.exams[i])]
        /\ FetchGoto(f, "polls", {})
        /\ UNCHANGED <<dbError, isLoading,
                 currentView, viewHistory>>
  /\ UNCHANGED <<currentUser, users, announcements, polls, resources,
                 schoolSettings, classGroups, session, db, calls, nOps, now,
                 failedCreates, chosen,
                 currentView, viewHistory>>

\* App.tsx:138-159
FetchPolls(f) ==
  /\ f \in fetches /\ f.pc = "polls"
  /\ \/ /\ FetchFatal(f, "polls")
        /\ UNCHANGED <<polls, chosen,
                 currentView, viewHistory>>
     \/ /\ polls' = [i \in 1..Len(db.polls) |-> MapPoll(db.polls[i])]
        /\ chosen' = Replaced(chosen)
        /\ FetchGoto(f, "resources", {})
        /\ UNCHANGED <<dbError, isLoading,
                 currentView, viewHistory>>
  /\ UNCHANGED <<currentUser, users, announcements, exams, resources,
                 schoolSettings, classGroups, session, db, calls, nOps, now,
                 failedCreates,
                 currentView, viewHistory>>

\* The answers of the select on resources: rows, the error 42P01 (the table
\* does not exist), or another error
ResourceAnswers == {"rows", "42P01", "error"}

\* A select on resources whose every error ends the load with the error set
FetchResourcesStrict(f) ==
  /\ f \in fetches /\ f.pc = "resources"
  /\ \E answer \in ResourceAnswers :
       /\ answer = "rows" => db.has_resources
       /\ answer = "42P01" => ~db.has_resources
       /\ IF answer = "rows"
          THEN /\ resources' = [i \in 1..Len(db.resources) |-> MapResource(db.resources[i])]
               /\ FetchEnd(f, f.failed)
               /\ UNCHANGED dbError
          ELSE /\ resources' = resources
               /\ FetchFatal(f, IF answer = "42P01" THEN "resources_42P01" ELSE "resources")
  /\ UNCHANGED <<currentUser, users, announcements, exams, polls,
                 schoolSettings, classGroups, session, db, calls, nOps,
                 now, failedCreates, chosen,
                 currentView, viewHistory>>

\* App.tsx:162-179: an error is never thrown here; 42P01 falls through to
\* `else if (resData)` with no data, another error is logged; resources are
\* set only when rows came back.
FetchResources(f) ==
  /\ f \in fetches /\ f.pc = "resources"
  /\ \E answer \in ResourceAnswers :
       /\ answer = "rows" => db.has_resources
       /\ answer = "42P01" => ~db.has_resources
       /\ resources' =
            IF answer = "rows"
            THEN [i \in 1..Len(db.resources) |-> MapResource(db.resources[i])]
            ELSE resources
       /\ FetchEnd(f, IF answer = "rows" THEN f.failed
                      ELSE IF answer = "42P01" THEN f.failed \cup {"resources_42P01"}
                      ELSE f.failed \cup {"resources"})
  /\ UNCHANGED <<currentUser, users, announcements, exams, polls,
                 schoolSettings, classGroups, dbError, session, db, calls, nOps,
                 now, failedCreates, chosen,
                 currentView, viewHistory>>

\* A prefix that shows the full-screen loader on every call: setIsLoading(true)
StartFetchShowingLoader(fid, cause) ==
  /\ Cardinality(fetches) < MaxFetch
  /\ fetches' = fetches \cup {Fetch(fid, cause, "settings", {})}
  /\ dbError' = None
  /\ isLoading' = TRUE

\* The synchronous prefix of a later fetchData call, App.tsx:52-53:
\* setIsLoading(prev => prev ? true : false) keeps isLoading; setDbError(null).
StartFetch(fid, cause) ==
  /\ Cardinality(fetches) < MaxFetch
  /\ fetches' = fetches \cup {Fetch(fid, cause, "settings", {})}
  /\ dbError' = None
  /\ isLoading' = isLoading

-----------------------------------------------------------------------------
(* Access filter, App.tsx:208-226 *)

Unrestricted(u) == u = NoUser \/ u.role = ADMIN \/ u.role = RESPONSABLE

\* A filter that lets every item through
VisibleToAll(x, u) == TRUE

\* !x.targetClass || x.targetClass === currentUser.classGroup
VisibleTo(x, u) == x.targetClass = None \/ x.targetClass = u.classGroup

AccessFilter(coll, u) ==
  IF Unrestricted(u) THEN coll ELSE SelectSeq(coll, LAMBDA x : VisibleTo(x, u))

filteredAnnouncements == AccessFilter(announcements, currentUser)
filteredExams == AccessFilter(exams, currentUser)
filteredPolls == AccessFilter(polls, currentUser)
filteredResources == AccessFilter(resources, currentUser)

-----------------------------------------------------------------------------
(* Notification deriver, App.tsx:687-739 *)

\* Integer division rounding toward zero (Math.trunc)
Trunc(x, d) == IF x >= 0 THEN x \div d ELSE -((-x) \div d)

\* Whole days counted by rounding toward minus infinity
differenceInDaysFloored(later, earlier) == (later - earlier) \div Day

\* date-fns differenceInDays: the number of full days between two instants,
\* rounded toward zero (no daylight-saving change within a behaviour)
differenceInDays(later, earlier) == Trunc(later - earlier, Day)

\* Whole hours counted by rounding toward minus infinity
differenceInHoursFloored(later, earlier) == (later - earlier) \div Hour

\* date-fns differenceInHours: the number of full hours between two
\* instants, rounded toward zero
differenceInHours(later, earlier) == Trunc(later - earlier, Hour)

\* App.tsx:693-694
ExamDue(exam) ==
  LET daysLeft == differenceInDays(exam.date, now)
  IN  daysLeft >= 0 /\ daysLeft <= NotifyDays

\* App.tsx:695-702
ExamAlert(exam) ==
  [id |-> <<"exam", exam.id>>, type |-> "alert", title |-> <<"Examen: ", exam.title>>,
   linkTo |-> "DS", timestamp |-> exam.date]

\* App.tsx:708-709
AnnouncementRecent(ann) ==
  LET hoursAgo == differenceInHours(now, ann.date)
  IN  hoursAgo >= 0 /\ hoursAgo <= NotifyHours

\* App.tsx:710-717
AnnouncementInfo(ann) ==
  [id |-> <<"ann", ann.id>>, type |-> "info",
   title |-> IF ann.isUrgent THEN <<"URGENT: ", ann.title>> ELSE <<"Annonce: ", ann.title>>,
   linkTo |-> "INFOS", timestamp |-> ann.date]

\* A poll on which nobody is taken to have voted
hasVotedNever(poll, uid) == FALSE

\* poll.userVotes && poll.userVotes[currentUser.id], App.tsx:725: an option
\* id is a non-empty string
hasVoted(poll, uid) == uid \in DOMAIN poll.userVotes

\* App.tsx:723-726
PollAwaitingVote(poll) ==
  LET hoursAgo == differenceInHours(now, poll.createdAt)
  IN  hoursAgo >= 0 /\ hoursAgo <= NotifyHours /\ ~hasVoted(poll, currentUser.id)

\* App.tsx:727-734
PollSuccess(poll) ==
  [id |-> <<"poll", poll.id>>, type |-> "success", title |-> <<"Nouveau sondage", poll.title>>,
   linkTo |-> "POLLS", timestamp |-> poll.createdAt]

\* The items in the order they are pushed
Unsorted(notifs) == notifs

\* notifs.sort((a, b) => b.timestamp.getTime() - a.timestamp.getTime()),
\* App.tsx:738; Array.prototype.sort is stable
SortByTimestampDesc(notifs) ==
  LET sorted == SortAsc([i \in 1..Len(notifs) |-> <<-notifs[i].timestamp, notifs[i]>>])
  IN  [i \in 1..Len(notifs) |-> sorted[i][2]]

\* A feed derived from the whole collections instead of the filtered ones
notificationsOfAll ==
  IF currentUser = NoUser THEN <<>>
  ELSE LET due == SelectSeq(exams, ExamDue)
           recent == SelectSeq(announcements, AnnouncementRecent)
           open == SelectSeq(polls, PollAwaitingVote)
       IN  SortByTimestampDesc(
             [i \in 1..Len(due) |-> ExamAlert(due[i])]
             \o [i \in 1..Len(recent) |-> AnnouncementInfo(recent[i])]
             \o [i \in 1..Len(open) |-> PollSuccess(open[i])])

\* App.tsx:687-739
notifications ==
  IF currentUser = NoUser THEN <<>>
  ELSE LET due == SelectSeq(filteredExams, ExamDue)
           recent == SelectSeq(filteredAnnouncements, AnnouncementRecent)
           open == SelectSeq(filteredPolls, PollAwaitingVote)
       IN  SortByTimestampDesc(
             [i \in 1..Len(due) |-> ExamAlert(due[i])]
             \o [i \in 1..Len(recent) |-> AnnouncementInfo(recent[i])]
             \o [i \in 1..Len(open) |-> PollSuccess(open[i])])

-----------------------------------------------------------------------------
(* What the rendered views let the user do *)

\* App.tsx:762-797: the views are rendered once loading is over, no load
\* error is shown and somebody is logged in
Ready == ~isLoading /\ dbError = None /\ currentUser # NoUser

CanStart == Ready /\ nOps < MaxOps

\* App.tsx:1211, 1470
canEdit == currentUser.role \in {ADMIN, RESPONSABLE}

\* App.tsx:1671-1673 (polls), 1352-1355 (exams)
canManage(x) ==
  \/ currentUser.role = ADMIN
  \/ currentUser.role = RESPONSABLE /\ x.targetClass = currentUser.classGroup
  \/ x.createdById = currentUser.id

\* The values the "Cible" select offers, App.tsx:1600-1605, and '' (the
\* form's initial value), which the submit turns into undefined
TargetChoices ==
  IF currentUser = NoUser THEN {}
  ELSE {None} \cup {classGroups[i].name : i \in {j \in 1..Len(classGroups) :
                 currentUser.role = ADMIN \/ classGroups[j].name = currentUser.classGroup}}

Titles == {"T2"}
Anonymity == {TRUE}
Texts == {"a", " "}

\* The option fields of the poll form: two fields at least (App.tsx:1493,
\* 1514), each holding some text, possibly blank
TextLists == UNION {[1..n -> Texts] : n \in 2..MaxOptions}

\* options.filter(o => o.trim() !== '')
NonBlank(texts) == SelectSeq(texts, LAMBDA t : t # " ")

GenId == 100 + nOps          \* generateId(): an id nobody has used
Stamp == nOps + 1            \* Date.now() in the option ids of a submit

Call(op, table, verb, id, payload, snapshot) ==
  [cid |-> nOps + 1, op |-> op, table |-> table, verb |-> verb, id |-> id,
   uid |-> None, payload |-> payload, snapshot |-> snapshot]

\* A call on the users, whose ids are names, not numbers (as is the id of
\* the settings row)
UserCall(op, verb, uid, payload, snapshot) ==
  [Call(op, "users", verb, 0, payload, snapshot) EXCEPT !.uid = uid]

\* The id a call is about
KeyOf(c) == IF c.table \in {"users", "school_settings"} THEN c.uid ELSE c.id

Did(op, id) == [NoLast EXCEPT !.op = op, !.id = id, !.uid = currentUser.id]

\* The catch block of the handler that issued call c has run
Failed(c) == [NoLast EXCEPT !.op = "failed", !.id = c.cid, !.cause = c.op]

-----------------------------------------------------------------------------
(* Login, logout, refresh *)

EngineLogins == {<<"FAYE@ECO.COM", "passer25">>, <<"s1", "pw">>, <<"s1", "passer25">>}

\* String.prototype.toLowerCase on the strings of the model
Lower(str) == IF str = "FAYE@ECO.COM" THEN "faye@eco.com" ELSE str

\* A comparison of the email as typed
LoginMatchesCaseSensitive(u, email, password) ==
  u.email = email /\ u.password = password

LoginMatches(u, email, password) ==
  Lower(u.email) = Lower(email) /\ u.password = password

\* App.tsx:229-239 (currentView and viewHistory are not part of the model)
handleLogin(email, password) ==
  /\ ~isLoading /\ dbError = None /\ currentUser = NoUser
  /\ LET found == {i \in 1..Len(users) : LoginMatches(users[i], email, password)}
     IN  IF found # {}
         THEN LET user == users[CHOOSE i \in found : \A j \in found : i <= j]
              IN  /\ session' = StoredSession(user)
                  /\ currentUser' = user
                  /\ currentView' = "DASHBOARD"
                  /\ viewHistory' = <<>>
                  /\ chosen' = EmptyMap
                  /\ last' = [NoLast EXCEPT !.op = "loginOk", !.uid = user.id,
                                            !.typed = <<email, password>>]
         ELSE /\ UNCHANGED <<session, currentUser, chosen,
                 currentView, viewHistory>>
              /\ last' = [NoLast EXCEPT !.op = "loginFailed",
                                        !.typed = <<email, password>>]
  /\ UNCHANGED <<users, announcements, exams, polls, resources, schoolSettings,
                 classGroups, isLoading, dbError, db, calls, fetches, nOps, now,
                 failedCreates>>

\* App.tsx:241-245
handleLogout ==
  /\ CanStart
  /\ session' = NoSession
  /\ currentUser' = NoUser
  /\ viewHistory' = <<>>
  /\ nOps' = nOps + 1
  /\ last' = Did("handleLogout", 0)
  /\ UNCHANGED <<users, announcements, exams, polls, resources, schoolSettings,
                 classGroups, isLoading, dbError, db, calls, fetches, now,
                 failedCreates, chosen, currentView>>

\* The values of ViewState that the rendering tells apart, App.tsx:808-871
Views == {"DASHBOARD", "INFOS", "DS", "POLLS", "RESOURCES", "USERS", "SETTINGS"}

\* App.tsx:187-192
changeView(newView) ==
  /\ CanStart
  /\ newView # currentView
  /\ viewHistory' = Append(viewHistory, currentView)
  /\ currentView' = newView
  /\ nOps' = nOps + 1
  /\ last' = Did("changeView", 0)
  /\ UNCHANGED <<currentUser, users, announcements, exams, polls, resources,
                 schoolSettings, classGroups, isLoading, dbError, session, db,
                 calls, fetches, now, failedCreates, chosen>>

\* App.tsx:194-205
navigateBack ==
  /\ CanStart
  /\ IF viewHistory = <<>>
     THEN currentView' = "DASHBOARD" /\ UNCHANGED viewHistory
     ELSE /\ viewHistory' = SubSeq(viewHistory, 1, Len(viewHistory) - 1)
          /\ currentView' = viewHistory[Len(viewHistory)]
  /\ nOps' = nOps + 1
  /\ last' = Did("navigateBack", 0)
  /\ UNCHANGED <<currentUser, users, announcements, exams, polls, resources,
                 schoolSettings, classGroups, isLoading, dbError, session, db,
                 calls, fetches, now, failedCreates, chosen>>

\* Dashboard onRefresh={fetchData}, App.tsx:817
Refresh ==
  /\ CanStart
  /\ StartFetch(nOps + 1, "refresh")
  /\ nOps' = nOps + 1
  /\ last' = Did("refresh", 0)
  /\ UNCHANGED <<currentUser, users, announcements, exams, polls, resources,
                 schoolSettings, classGroups, session, db, calls, now,
                 failedCreates, chosen,
                 currentView, viewHistory>>

-----------------------------------------------------------------------------
(* Polls *)

\* Polls.handleSubmit, create branch, App.tsx:1547-1557
NewOptions(texts) ==
  LET kept == NonBlank(texts)
  IN  [i \in 1..Len(kept) |-> [id |-> Opt(Stamp, i), text |-> kept[i], votes |-> 0]]

\* Polls.handleSubmit, edit branch, App.tsx:1526-1535: the submitted texts
\* are laid over the existing options by position
EditedOptions(existing, texts) ==
  LET kept == NonBlank(texts)
  IN  [i \in 1..Len(kept) |->
        IF i <= Len(existing)
        THEN [existing[i] EXCEPT !.text = kept[i]]
        ELSE [id |-> Opt(Stamp, i), text |-> kept[i], votes |-> 0]]

PollInsertRow(p) ==
  [id |-> p.id, title |-> p.title, options |-> p.options,
   is_anonymous |-> p.isAnonymous, created_at |-> p.createdAt,
   expires_at |-> p.expiresAt, target_class |-> p.targetClass,
   created_by_id |-> p.createdById, voted_user_ids |-> StoredMap(EmptyMap)]

\* Polls.handleSubmit (create) and addPoll, App.tsx:383-415
addPoll(title, texts, anon, target) ==
  /\ CanStart /\ canEdit
  /\ LET newPoll == [id |-> GenId, title |-> title, options |-> NewOptions(texts),
                     isAnonymous |-> anon, createdAt |-> now,
                     expiresAt |-> now + PollLifetimeDays * Day,
                     targetClass |-> target, createdById |-> currentUser.id,
                     userVotes |-> EmptyMap]
     IN  /\ polls' = <<newPoll>> \o polls
         /\ calls' = calls \cup {Call("addPoll", "polls", "insert", GenId,
                                      PollInsertRow(newPoll), <<>>)}
  /\ nOps' = nOps + 1
  /\ last' = Did("addPoll", GenId)
  /\ UNCHANGED <<currentUser, users, announcements, exams, resources,
                 schoolSettings, classGroups, isLoading, dbError, session, db,
                 fetches, now, failedCreates, chosen,
                 currentView, viewHistory>>

PollUpdatePatch(p) ==
  [title |-> p.title, options |-> p.options, is_anonymous |-> p.isAnonymous,
   target_class |-> p.targetClass]

\* Polls.handleSubmit (edit) and updatePoll, App.tsx:417-434
updatePoll(id, title, texts, anon, target) ==
  /\ CanStart
  /\ HasId(filteredPolls, id)
  /\ canManage(FindById(filteredPolls, id))
  /\ LET existingPoll == FindById(filteredPolls, id)
         updatedPoll == [existingPoll EXCEPT
                           !.title = title,
                           !.options = EditedOptions(existingPoll.options, texts),
                           !.isAnonymous = anon,
                           !.targetClass = target]
     IN  /\ polls' = ReplaceById(polls, updatedPoll)
         /\ calls' = calls \cup {Call("updatePoll", "polls", "update", id,
                                      PollUpdatePatch(updatedPoll), polls)}
  /\ nOps' = nOps + 1
  /\ last' = Did("updatePoll", id)
  /\ UNCHANGED <<currentUser, users, announcements, exams, resources,
                 schoolSettings, classGroups, isLoading, dbError, session, db,
                 fetches, now, failedCreates, chosen,
                 currentView, viewHistory>>

\* App.tsx:482-494
deletePoll(id) ==
  /\ CanStart
  /\ HasId(filteredPolls, id)
  /\ canManage(FindById(filteredPolls, id))
  /\ polls' = RemoveId(polls, id)
  /\ calls' = calls \cup {Call("deletePoll", "polls", "delete", id, <<>>, polls)}
  /\ nOps' = nOps + 1
  /\ last' = Did("deletePoll", id)
  /\ UNCHANGED <<currentUser, users, announcements, exams, resources,
                 schoolSettings, classGroups, isLoading, dbError, session, db,
                 fetches, now, failedCreates, chosen,
                 currentView, viewHistory>>

\* pollToUpdate.userVotes[currentUser.id]
previousOptionId(poll, uid) ==
  IF uid \in DOMAIN poll.userVotes THEN poll.userVotes[uid] ELSE NoOpt

\* { ...pollToUpdate.userVotes, [currentUser.id]: optionId }, App.tsx:450
updatedUserVotes(ledger, uid, optionId) ==
  [u \in DOMAIN ledger \cup {uid} |-> IF u = uid THEN optionId ELSE ledger[u]]

Max(a, b) == IF a >= b THEN a ELSE b

\* The options of a vote that forgets to take the previous vote back
updatedOptionsKeepingOld(options, prev, optionId) ==
  [i \in 1..Len(options) |->
     [options[i] EXCEPT !.votes = IF options[i].id = optionId THEN @ + 1 ELSE @]]

\* App.tsx:452-459
updatedOptions(options, prev, optionId) ==
  [i \in 1..Len(options) |->
     LET o == options[i]
         dec == IF o.id = prev THEN Max(0, o.votes - 1) ELSE o.votes
         inc == IF o.id = optionId THEN dec + 1 ELSE dec
     IN  [o EXCEPT !.votes = inc]]

\* A vote without the early return
SameVoteIgnored(prev, optionId) == FALSE

\* The early return of App.tsx:447
SameVote(prev, optionId) == prev = optionId

\* A payload that leaves the option counts of the store as they are
VotePatchLedgerOnly(p) == [voted_user_ids |-> StoredMap(p.userVotes)]

VotePatch(p) ==
  [voted_user_ids |-> StoredMap(p.userVotes), options |-> p.options]

\* App.tsx:437-480, up to the remote call; the buttons of App.tsx:1731-1735
\* offer the options of the polls shown
votePoll(pollId, optionId) ==
  /\ CanStart
  /\ HasId(filteredPolls, pollId)
  /\ LET pollToUpdate == FindById(polls, pollId)
         uid == currentUser.id
         prev == previousOptionId(pollToUpdate, uid)
         updatedPoll == [pollToUpdate EXCEPT
                           !.userVotes = updatedUserVotes(@, uid, optionId),
                           !.options = updatedOptions(@, prev, optionId)]
     IN  /\ \E i \in 1..Len(pollToUpdate.options) : pollToUpdate.options[i].id = optionId
         /\ last' = [Did("votePoll", pollId) EXCEPT !.opt = optionId, !.prev = prev]
         /\ IF SameVote(prev, optionId)
            THEN UNCHANGED <<polls, calls,
                 currentView, viewHistory>>
            ELSE /\ polls' = ReplaceById(polls, updatedPoll)
                 /\ calls' = calls \cup {Call("votePoll", "polls", "update", pollId,
                                              VotePatch(updatedPoll), <<>>)}
  /\ chosen' = [p \in DOMAIN chosen \cup {pollId} |->
                  IF p = pollId THEN <<optionId, FALSE>> ELSE chosen[p]]
  /\ nOps' = nOps + 1
  /\ UNCHANGED <<currentUser, users, announcements, exams, resources,
                 schoolSettings, classGroups, isLoading, dbError, session, db,
                 fetches, now, failedCreates,
                 currentView, viewHistory>>

\* A second client, on which r1 is logged in.  It has loaded the polls the
\* store held at the start, as this client has, and has done nothing since.
OtherVoter == "r1"

OtherCopy(pollId) == MapPoll(FindById(EngineStore.polls, pollId))

\* votePoll (App.tsx:437-473) run by the second client on its copy, up to
\* the remote call
otherVotePoll(pollId, optionId) ==
  /\ nOps < MaxOps
  /\ HasId(db.polls, pollId) /\ HasId(EngineStore.polls, pollId)
  /\ \A c \in calls : c.op # "otherVote"
  /\ OtherVoter \notin DOMAIN VotesMap(FindById(db.polls, pollId).voted_user_ids)
  /\ LET pollToUpdate == OtherCopy(pollId)
         prev == previousOptionId(pollToUpdate, OtherVoter)
         updatedPoll == [pollToUpdate EXCEPT
                           !.userVotes = updatedUserVotes(@, OtherVoter, optionId),
                           !.options = updatedOptions(@, prev, optionId)]
     IN  /\ \E i \in 1..Len(pollToUpdate.options) : pollToUpdate.options[i].id = optionId
         /\ ~SameVote(prev, optionId)
         /\ calls' = calls \cup {[Call("otherVote", "polls", "update", pollId,
                                       VotePatch(updatedPoll), <<>>)
                                    EXCEPT !.uid = OtherVoter]}
  /\ nOps' = nOps + 1
  /\ last' = [NoLast EXCEPT !.op = "otherVote", !.id = pollId, !.uid = OtherVoter,
                            !.opt = optionId]
  /\ UNCHANGED <<currentUser, users, announcements, exams, polls, resources,
                 schoolSettings, classGroups, isLoading, dbError, session, db,
                 fetches, now, failedCreates, chosen,
                 currentView, viewHistory>>

\* The second client's call fails; what its catch does happens over there
otherVoteFailed(c) ==
  /\ c \in calls /\ c.op = "otherVote"
  /\ calls' = calls \ {c}
  /\ last' = Failed(c)
  /\ UNCHANGED <<currentUser, users, announcements, exams, polls, resources,
                 schoolSettings, classGroups, isLoading, dbError, session, db,
                 fetches, nOps, now, failedCreates, chosen,
                 currentView, viewHistory>>

-----------------------------------------------------------------------------
(* Announcements *)

AnnouncementInsertRow(a) ==
  [id |-> a.id, title |-> a.title, date |-> a.date, is_urgent |-> a.isUrgent,
   target_class |-> a.targetClass, author_id |-> a.authorId,
   author_name |-> a.authorName]

\* App.tsx:249-279
addAnnouncement(title, urgent, target) ==
  /\ CanStart
  /\ LET newAnn == [id |-> GenId, title |-> title, date |-> now,
                    isUrgent |-> urgent, targetClass |-> target,
                    authorId |-> currentUser.id, authorName |-> currentUser.name]
     IN  /\ announcements' = <<newAnn>> \o announcements
         /\ calls' = calls \cup {Call("addAnnouncement", "announcements", "insert",
                                      GenId, AnnouncementInsertRow(newAnn), <<>>)}
  /\ nOps' = nOps + 1
  /\ last' = Did("addAnnouncement", GenId)
  /\ UNCHANGED <<currentUser, users, exams, polls, resources, schoolSettings,
                 classGroups, isLoading, dbError, session, db, fetches, now,
                 failedCreates, chosen,
                 currentView, viewHistory>>

AnnouncementUpdatePatch(a) ==
  [title |-> a.title, date |-> a.date, is_urgent |-> a.isUrgent,
   target_class |-> a.targetClass]

\* App.tsx:281-300; the view hands back the announcement it was given with
\* the edited fields replaced
updateAnnouncement(id, title, urgent, target) ==
  /\ CanStart
  /\ HasId(filteredAnnouncements, id)
  /\ LET updatedAnn == [FindById(filteredAnnouncements, id) EXCEPT
                          !.title = title, !.isUrgent = urgent,
                          !.targetClass = target]
     IN  /\ announcements' = ReplaceById(announcements, updatedAnn)
         /\ calls' = calls \cup {Call("updateAnnouncement", "announcements", "update",
                                      id, AnnouncementUpdatePatch(updatedAnn),
                                      announcements)}
  /\ nOps' = nOps + 1
  /\ last' = Did("updateAnnouncement", id)
  /\ UNCHANGED <<currentUser, users, exams, polls, resources, schoolSettings,
                 classGroups, isLoading, dbError, session, db, fetches, now,
                 failedCreates, chosen,
                 currentView, viewHistory>>

\* App.tsx:302-314
deleteAnnouncement(id) ==
  /\ CanStart
  /\ HasId(filteredAnnouncements, id)
  /\ announcements' = RemoveId(announcements, id)
  /\ calls' = calls \cup {Call("deleteAnnouncement", "announcements", "delete", id,
                               <<>>, announcements)}
  /\ nOps' = nOps + 1
  /\ last' = Did("deleteAnnouncement", id)
  /\ UNCHANGED <<currentUser, users, exams, polls, resources, schoolSettings,
                 classGroups, isLoading, dbError, session, db, fetches, now,
                 failedCreates, chosen,
                 currentView, viewHistory>>

-----------------------------------------------------------------------------
(* Exams *)

\* The dates the exam form is given
ExamDates == {2 * Day}

ExamInsertRow(e) ==
  [id |-> e.id, title |-> e.title, date |-> e.date,
   target_class |-> e.targetClass, created_by_id |-> e.createdById]

\* ExamSchedule.handleSubmit (create) and addExam, App.tsx:316-345: the new
\* exam goes to the end of the list
addExam(title, date, target) ==
  /\ CanStart /\ canEdit
  /\ LET newExam == [id |-> GenId, title |-> title, date |-> date,
                     targetClass |-> target, createdById |-> currentUser.id]
     IN  /\ exams' = Append(exams, newExam)
         /\ calls' = calls \cup {Call("addExam", "exams", "insert", GenId,
                                      ExamInsertRow(newExam), <<>>)}
  /\ nOps' = nOps + 1
  /\ last' = Did("addExam", GenId)
  /\ UNCHANGED <<currentUser, users, announcements, polls, resources,
                 schoolSettings, classGroups, isLoading, dbError, session, db,
                 fetches, now, failedCreates, chosen,
                 currentView, viewHistory>>

ExamUpdatePatch(e) ==
  [title |-> e.title, date |-> e.date, target_class |-> e.targetClass]

\* ExamSchedule.handleSubmit (edit) and updateExam, App.tsx:347-367
updateExam(id, title, date, target) ==
  /\ CanStart
  /\ HasId(filteredExams, id)
  /\ canManage(FindById(filteredExams, id))
  /\ LET updatedExam == [FindById(filteredExams, id) EXCEPT
                           !.title = title, !.date = date, !.targetClass = target]
     IN  /\ exams' = ReplaceById(exams, updatedExam)
         /\ calls' = calls \cup {Call("updateExam", "exams", "update", id,
                                      ExamUpdatePatch(updatedExam), exams)}
  /\ nOps' = nOps + 1
  /\ last' = Did("updateExam", id)
  /\ UNCHANGED <<currentUser, users, announcements, polls, resources,
                 schoolSettings, classGroups, isLoading, dbError, session, db,
                 fetches, now, failedCreates, chosen,
                 currentView, viewHistory>>

\* App.tsx:369-381
deleteExam(id) ==
  /\ CanStart
  /\ HasId(filteredExams, id)
  /\ canManage(FindById(filteredExams, id))
  /\ exams' = RemoveId(exams, id)
  /\ calls' = calls \cup {Call("deleteExam", "exams", "delete", id, <<>>, exams)}
  /\ nOps' = nOps + 1
  /\ last' = Did("deleteExam", id)
  /\ UNCHANGED <<currentUser, users, announcements, polls, resources,
                 schoolSettings, classGroups, isLoading, dbError, session, db,
                 fetches, now, failedCreates, chosen,
                 currentView, viewHistory>>

-----------------------------------------------------------------------------
(* Resources *)

ResourceInsertRow(r) ==
  [id |-> r.id, title |-> r.title, target_class |-> r.targetClass,
   created_at |-> r.createdAt, created_by_id |-> r.createdById]

\* App.tsx:498-526: the new resource goes to the head of the list
addResource(title, target) ==
  /\ CanStart
  /\ LET newRes == [id |-> GenId, title |-> title, targetClass |-> target,
                    createdAt |-> now, createdById |-> currentUser.id]
     IN  /\ resources' = <<newRes>> \o resources
         /\ calls' = calls \cup {Call("addResource", "resources", "insert", GenId,
                                      ResourceInsertRow(newRes), <<>>)}
  /\ nOps' = nOps + 1
  /\ last' = Did("addResource", GenId)
  /\ UNCHANGED <<currentUser, users, announcements, exams, polls,
                 schoolSettings, classGroups, isLoading, dbError, session, db,
                 fetches, now, failedCreates, chosen,
                 currentView, viewHistory>>

ResourceUpdatePatch(r) == [title |-> r.title, target_class |-> r.targetClass]

\* App.tsx:528-546; the view hands back a resource it was given with the
\* edited fields replaced
updateResource(id, title, target) ==
  /\ CanStart
  /\ HasId(filteredResources, id)
  /\ LET updatedRes == [FindById(filteredResources, id) EXCEPT
                          !.title = title, !.targetClass = target]
     IN  /\ resources' = ReplaceById(resources, updatedRes)
         /\ calls' = calls \cup {Call("updateResource", "resources", "update", id,
                                      ResourceUpdatePatch(updatedRes), resources)}
  /\ nOps' = nOps + 1
  /\ last' = Did("updateResource", id)
  /\ UNCHANGED <<currentUser, users, announcements, exams, polls,
                 schoolSettings, classGroups, isLoading, dbError, session, db,
                 fetches, now, failedCreates, chosen,
                 currentView, viewHistory>>

\* App.tsx:548-560
deleteResource(id) ==
  /\ CanStart
  /\ HasId(filteredResources, id)
  /\ resources' = RemoveId(resources, id)
  /\ calls' = calls \cup {Call("deleteResource", "resources", "delete", id, <<>>,
                               resources)}
  /\ nOps' = nOps + 1
  /\ last' = Did("deleteResource", id)
  /\ UNCHANGED <<currentUser, users, announcements, exams, polls,
                 schoolSettings, classGroups, isLoading, dbError, session, db,
                 fetches, now, failedCreates, chosen,
                 currentView, viewHistory>>

-----------------------------------------------------------------------------
(* Users, App.tsx:861: the view is rendered for an administrator only *)

IsAdmin == currentUser # NoUser /\ currentUser.role = ADMIN

\* The id UserManagement gives the user it creates: one nobody has
NewUserId == <<"u1", "u2", "u3", "u4", "u5", "u6">>[nOps + 1]

UserInsertRow(u) ==
  [id |-> u.id, name |-> u.name, email |-> u.email, password |-> u.password,
   role |-> u.role, class_group |-> u.classGroup]

\* App.tsx:568-585: the new user goes to the end of the list
addUser(user) ==
  /\ CanStart /\ IsAdmin
  /\ users' = Append(users, user)
  /\ calls' = calls \cup {UserCall("addUser", "insert", user.id,
                                   UserInsertRow(user), <<>>)}
  /\ nOps' = nOps + 1
  /\ last' = Did("addUser", 0)
  /\ UNCHANGED <<currentUser, announcements, exams, polls, resources,
                 schoolSettings, classGroups, isLoading, dbError, session, db,
                 fetches, now, failedCreates, chosen,
                 currentView, viewHistory>>

UserUpdatePatch(u) ==
  [name |-> u.name, email |-> u.email, password |-> u.password, role |-> u.role,
   class_group |-> u.classGroup]

\* App.tsx:587-605
updateUser(updatedUser) ==
  /\ CanStart /\ IsAdmin
  /\ HasId(users, updatedUser.id)
  /\ users' = ReplaceById(users, updatedUser)
  /\ calls' = calls \cup {UserCall("updateUser", "update", updatedUser.id,
                                   UserUpdatePatch(updatedUser), users)}
  /\ nOps' = nOps + 1
  /\ last' = Did("updateUser", 0)
  /\ UNCHANGED <<currentUser, announcements, exams, polls, resources,
                 schoolSettings, classGroups, isLoading, dbError, session, db,
                 fetches, now, failedCreates, chosen,
                 currentView, viewHistory>>

\* App.tsx:607-619
resetUserPassword(id) ==
  /\ CanStart /\ IsAdmin
  /\ HasId(users, id)
  /\ users' = ReplaceById(users, [FindById(users, id) EXCEPT !.password = "passer25"])
  /\ calls' = calls \cup {UserCall("resetUserPassword", "update", id,
                                   [password |-> "passer25"], users)}
  /\ nOps' = nOps + 1
  /\ last' = Did("resetUserPassword", 0)
  /\ UNCHANGED <<currentUser, announcements, exams, polls, resources,
                 schoolSettings, classGroups, isLoading, dbError, session, db,
                 fetches, now, failedCreates, chosen,
                 currentView, viewHistory>>

\* App.tsx:623-632, up to the remote call
deleteUser(id) ==
  /\ CanStart /\ IsAdmin
  /\ HasId(users, id)
  /\ users' = RemoveId(users, id)
  /\ calls' = calls \cup {UserCall("deleteUser", "delete", id, <<>>, users)}
  /\ nOps' = nOps + 1
  /\ last' = Did("deleteUser", 0)
  /\ UNCHANGED <<currentUser, announcements, exams, polls, resources,
                 schoolSettings, classGroups, isLoading, dbError, session, db,
                 fetches, now, failedCreates, chosen,
                 currentView, viewHistory>>

-----------------------------------------------------------------------------
(* Settings and class groups, App.tsx:871: for an administrator only *)

SettingsRow(st) ==
  [id |-> "config", school_name |-> st.schoolName, theme_color |-> st.themeColor,
   logo_url |-> st.logoUrl]

\* App.tsx:646-655, up to the remote call
updateSettings(settings) ==
  /\ CanStart /\ IsAdmin
  /\ schoolSettings' = settings
  /\ calls' = calls \cup {[Call("updateSettings", "school_settings", "upsert", 0,
                                SettingsRow(settings), <<>>) EXCEPT !.uid = "config"]}
  /\ nOps' = nOps + 1
  /\ last' = Did("updateSettings", 0)
  /\ UNCHANGED <<currentUser, users, announcements, exams, polls, resources,
                 classGroups, isLoading, dbError, session, db, fetches, now,
                 failedCreates, chosen,
                 currentView, viewHistory>>

\* App.tsx:661-672: the new class goes to the end of the list
addClassGroup(name) ==
  /\ CanStart /\ IsAdmin
  /\ LET newClass == [id |-> GenId, name |-> name]
     IN  /\ classGroups' = Append(classGroups, newClass)
         /\ calls' = calls \cup {Call("addClassGroup", "class_groups", "insert",
                                      GenId, newClass, <<>>)}
  /\ nOps' = nOps + 1
  /\ last' = Did("addClassGroup", GenId)
  /\ UNCHANGED <<currentUser, users, announcements, exams, polls, resources,
                 schoolSettings, isLoading, dbError, session, db, fetches, now,
                 failedCreates, chosen,
                 currentView, viewHistory>>

\* App.tsx:674-684
deleteClassGroup(id) ==
  /\ CanStart /\ IsAdmin
  /\ HasId(classGroups, id)
  /\ classGroups' = RemoveId(classGroups, id)
  /\ calls' = calls \cup {Call("deleteClassGroup", "class_groups", "delete", id,
                               <<>>, classGroups)}
  /\ nOps' = nOps + 1
  /\ last' = Did("deleteClassGroup", id)
  /\ UNCHANGED <<currentUser, users, announcements, exams, polls, resources,
                 schoolSettings, isLoading, dbError, session, db, fetches, now,
                 failedCreates, chosen,
                 currentView, viewHistory>>

-----------------------------------------------------------------------------
(* The remote store's answer to a call in flight *)

\* insert / upsert / update(...).eq('id', id) / delete().eq('id', id) on one
\* table
Applied(rows, c) ==
  IF c.verb = "insert" \/ (c.verb = "upsert" /\ ~HasId(rows, KeyOf(c)))
  THEN Append(rows, c.payload)
  ELSE IF c.verb \in {"update", "upsert"}
       THEN [i \in 1..Len(rows) |->
               IF rows[i].id = KeyOf(c) THEN Merge(rows[i], c.payload) ELSE rows[i]]
       ELSE RemoveId(rows, KeyOf(c))

\* The call succeeds: `if (error) throw error` does not throw and the
\* handler ends.  An insert of an id the table holds cannot succeed, nor can
\* a call on a table that does not exist.
RemoteOk(c) ==
  /\ c \in calls
  /\ c.verb = "insert" => ~HasId(db[c.table], KeyOf(c))
  /\ c.table = "resources" => db.has_resources
  /\ db' = [db EXCEPT ![c.table] = Applied(@, c)]
  /\ calls' = calls \ {c}
  /\ last' = NoLast
  /\ UNCHANGED <<currentUser, users, announcements, exams, polls, resources,
                 schoolSettings, classGroups, isLoading, dbError, session,
                 fetches, nOps, now, failedCreates, chosen,
                 currentView, viewHistory>>

\* catch of addPoll, App.tsx:410-414
addPollFailed(c) ==
  /\ c \in calls /\ c.op = "addPoll"
  /\ polls' = RemoveId(polls, c.id)
  /\ failedCreates' = failedCreates \cup {c.id}
  /\ calls' = calls \ {c}
  /\ last' = Failed(c)
  /\ UNCHANGED <<currentUser, users, announcements, exams, resources,
                 schoolSettings, classGroups, isLoading, dbError, session, db,
                 fetches, nOps, now, chosen,
                 currentView, viewHistory>>

\* catch of updatePoll and of deletePoll, App.tsx:429-433, 489-493
restorePolls(c) ==
  /\ c \in calls /\ c.op \in {"updatePoll", "deletePoll"}
  /\ polls' = c.snapshot
  /\ chosen' = Replaced(chosen)
  /\ calls' = calls \ {c}
  /\ last' = Failed(c)
  /\ UNCHANGED <<currentUser, users, announcements, exams, resources,
                 schoolSettings, classGroups, isLoading, dbError, session, db,
                 fetches, nOps, now, failedCreates,
                 currentView, viewHistory>>

\* A catch of votePoll that reports the failure as a load error
votePollFailedFatal(c) ==
  /\ c \in calls /\ c.op = "votePoll"
  /\ dbError' = FetchError
  /\ calls' = calls \ {c}
  /\ last' = Failed(c)
  /\ UNCHANGED <<currentUser, users, announcements, exams, polls, resources,
                 schoolSettings, classGroups, isLoading, session, db, fetches,
                 nOps, now, failedCreates, chosen,
                 currentView, viewHistory>>

\* A catch of votePoll that only logs
votePollFailedSilently(c) ==
  /\ c \in calls /\ c.op = "votePoll"
  /\ calls' = calls \ {c}
  /\ last' = Failed(c)
  /\ UNCHANGED <<currentUser, users, announcements, exams, polls, resources,
                 schoolSettings, classGroups, isLoading, dbError, session, db,
                 fetches, nOps, now, failedCreates, chosen,
                 currentView, viewHistory>>

\* catch of votePoll, App.tsx:474-479: fetchData is called
votePollFailed(c) ==
  /\ c \in calls /\ c.op = "votePoll"
  /\ StartFetch(c.cid, "votePoll")
  /\ calls' = calls \ {c}
  /\ last' = Failed(c)
  /\ UNCHANGED <<currentUser, users, announcements, exams, polls, resources,
                 schoolSettings, classGroups, session, db, nOps, now,
                 failedCreates, chosen,
                 currentView, viewHistory>>

\* catch of addAnnouncement, App.tsx:274-278
addAnnouncementFailed(c) ==
  /\ c \in calls /\ c.op = "addAnnouncement"
  /\ announcements' = RemoveId(announcements, c.id)
  /\ failedCreates' = failedCreates \cup {c.id}
  /\ calls' = calls \ {c}
  /\ last' = Failed(c)
  /\ UNCHANGED <<currentUser, users, exams, polls, resources, schoolSettings,
                 classGroups, isLoading, dbError, session, db, fetches, nOps, now,
                 chosen,
                 currentView, viewHistory>>

\* catch of updateAnnouncement and of deleteAnnouncement, App.tsx:295-299, 309-313
restoreAnnouncements(c) ==
  /\ c \in calls /\ c.op \in {"updateAnnouncement", "deleteAnnouncement"}
  /\ announcements' = c.snapshot
  /\ calls' = calls \ {c}
  /\ last' = Failed(c)
  /\ UNCHANGED <<currentUser, users, exams, polls, resources, schoolSettings,
                 classGroups, isLoading, dbError, session, db, fetches, nOps, now,
                 failedCreates, chosen,
                 currentView, viewHistory>>

\* catch of addExam, App.tsx:341-344
addExamFailed(c) ==
  /\ c \in calls /\ c.op = "addExam"
  /\ exams' = RemoveId(exams, c.id)
  /\ calls' = calls \ {c}
  /\ last' = Failed(c)
  /\ UNCHANGED <<currentUser, users, announcements, polls, resources,
                 schoolSettings, classGroups, isLoading, dbError, session, db,
                 fetches, nOps, now, failedCreates, chosen,
                 currentView, viewHistory>>

\* catch of updateExam and of deleteExam, App.tsx:362-366, 376-380
restoreExams(c) ==
  /\ c \in calls /\ c.op \in {"updateExam", "deleteExam"}
  /\ exams' = c.snapshot
  /\ calls' = calls \ {c}
  /\ last' = Failed(c)
  /\ UNCHANGED <<currentUser, users, announcements, polls, resources,
                 schoolSettings, classGroups, isLoading, dbError, session, db,
                 fetches, nOps, now, failedCreates, chosen,
                 currentView, viewHistory>>

\* catch of addResource, App.tsx:521-525
addResourceFailed(c) ==
  /\ c \in calls /\ c.op = "addResource"
  /\ resources' = RemoveId(resources, c.id)
  /\ calls' = calls \ {c}
  /\ last' = Failed(c)
  /\ UNCHANGED <<currentUser, users, announcements, exams, polls,
                 schoolSettings, classGroups, isLoading, dbError, session, db,
                 fetches, nOps, now, failedCreates, chosen,
                 currentView, viewHistory>>

\* A catch that takes the item of the call out instead of restoring the list
restoreResourcesByRemoval(c) ==
  /\ c \in calls /\ c.op \in {"updateResource", "deleteResource"}
  /\ resources' = RemoveId(resources, c.id)
  /\ calls' = calls \ {c}
  /\ last' = Failed(c)
  /\ UNCHANGED <<currentUser, users, announcements, exams, polls,
                 schoolSettings, classGroups, isLoading, dbError, session, db,
                 fetches, nOps, now, failedCreates, chosen,
                 currentView, viewHistory>>

\* catch of updateResource and of deleteResource, App.tsx:541-545, 555-559
restoreResources(c) ==
  /\ c \in calls /\ c.op \in {"updateResource", "deleteResource"}
  /\ resources' = c.snapshot
  /\ calls' = calls \ {c}
  /\ last' = Failed(c)
  /\ UNCHANGED <<currentUser, users, announcements, exams, polls,
                 schoolSettings, classGroups, isLoading, dbError, session, db,
                 fetches, nOps, now, failedCreates, chosen,
                 currentView, viewHistory>>

\* catch of addUser, App.tsx:580-584
addUserFailed(c) ==
  /\ c \in calls /\ c.op = "addUser"
  /\ users' = RemoveId(users, c.uid)
  /\ calls' = calls \ {c}
  /\ last' = Failed(c)
  /\ UNCHANGED <<currentUser, announcements, exams, polls, resources,
                 schoolSettings, classGroups, isLoading, dbError, session, db,
                 fetches, nOps, now, failedCreates, chosen,
                 currentView, viewHistory>>

\* catch of updateUser and of resetUserPassword, App.tsx:600-604, 614-618
restoreUsers(c) ==
  /\ c \in calls /\ c.op \in {"updateUser", "resetUserPassword"}
  /\ users' = c.snapshot
  /\ calls' = calls \ {c}
  /\ last' = Failed(c)
  /\ UNCHANGED <<currentUser, announcements, exams, polls, resources,
                 schoolSettings, classGroups, isLoading, dbError, session, db,
                 fetches, nOps, now, failedCreates, chosen,
                 currentView, viewHistory>>

\* The errors a delete on users is answered with: a code (or none) and a
\* message (or none)
FkMessage == "update or delete on table users violates foreign key constraint"

DeleteErrors ==
  { [code |-> "23503", message |-> FkMessage],
    [code |-> "23503", message |-> None],
    [code |-> None, message |-> FkMessage],
    [code |-> "42501", message |-> "permission denied for table users"],
    [code |-> None, message |-> "Failed to fetch"] }

\* err.message?.includes('foreign key constraint') on the messages above
IncludesForeignKey(message) == message = FkMessage

\* An alert that never gives the hint
DeleteUserAlertPlain(err) == "Impossible de supprimer l'utilisateur"

\* App.tsx:636-640
DeleteUserAlert(err) ==
  IF IncludesForeignKey(err.message) \/ err.code = "23503"
  THEN "Impossible de supprimer : script SQL Cascade"
  ELSE "Impossible de supprimer l'utilisateur"

\* catch of deleteUser, App.tsx:633-642: alert, rollback, and fetchData
\* (not awaited)
deleteUserFailed(c, err) ==
  /\ c \in calls /\ c.op = "deleteUser"
  /\ users' = c.snapshot
  /\ StartFetch(c.cid, "deleteUser")
  /\ calls' = calls \ {c}
  /\ last' = [Failed(c) EXCEPT !.alert = DeleteUserAlert(err), !.error = err]
  /\ UNCHANGED <<currentUser, announcements, exams, polls, resources,
                 schoolSettings, classGroups, session, db, nOps, now,
                 failedCreates, chosen,
                 currentView, viewHistory>>

\* catch of updateSettings, App.tsx:656-658: the error is logged
updateSettingsFailed(c) ==
  /\ c \in calls /\ c.op = "updateSettings"
  /\ calls' = calls \ {c}
  /\ last' = Failed(c)
  /\ UNCHANGED <<currentUser, users, announcements, exams, polls, resources,
                 schoolSettings, classGroups, isLoading, dbError, session, db,
                 fetches, nOps, now, failedCreates, chosen,
                 currentView, viewHistory>>

\* catch of addClassGroup, App.tsx:668-671
addClassGroupFailed(c) ==
  /\ c \in calls /\ c.op = "addClassGroup"
  /\ classGroups' = RemoveId(classGroups, c.id)
  /\ calls' = calls \ {c}
  /\ last' = Failed(c)
  /\ UNCHANGED <<currentUser, users, announcements, exams, polls, resources,
                 schoolSettings, isLoading, dbError, session, db, fetches, nOps,
                 now, failedCreates, chosen,
                 currentView, viewHistory>>

\* catch of deleteClassGroup, App.tsx:680-683
restoreClassGroups(c) ==
  /\ c \in calls /\ c.op = "deleteClassGroup"
  /\ classGroups' = c.snapshot
  /\ calls' = calls \ {c}
  /\ last' = Failed(c)
  /\ UNCHANGED <<currentUser, users, announcements, exams, polls, resources,
                 schoolSettings, isLoading, dbError, session, db, fetches, nOps,
                 now, failedCreates, chosen,
                 currentView, viewHistory>>

-----------------------------------------------------------------------------
(* Specifications *)

FetchSettingsStep == \E f \in fetches : FetchSettings(f)
FetchClassesStep == \E f \in fetches : FetchClasses(f)
FetchUsersStep == \E f \in fetches : FetchUsers(f)
FetchInitAdminStep == \E f \in fetches : FetchInitAdmin(f)
FetchAnnouncementsStep == \E f \in fetches : FetchAnnouncements(f)
FetchExamsStep == \E f \in fetches : FetchExams(f)
FetchPollsStep == \E f \in fetches : FetchPolls(f)
FetchResourcesStep == \E f \in fetches : FetchResources(f)

Login == \E typed \in EngineLogins : handleLogin(typed[1], typed[2])

AddPoll ==
  \E t \in Titles, x \in TextLists, a \in Anonymity, c \in TargetChoices :
    addPoll(t, x, a, c)

UpdatePoll ==
  \E p \in Ids(polls), t \in Titles, x \in TextLists, a \in Anonymity, c \in TargetChoices :
    updatePoll(p, t, x, a, c)

DeletePoll == \E p \in Ids(polls) : deletePoll(p)

VotePoll ==
  \E p \in Ids(polls), i \in 1..MaxOptions :
    /\ i <= Len(FindById(polls, p).options)
    /\ votePoll(p, FindById(polls, p).options[i].id)

AddPollFailed == \E c \in calls : addPollFailed(c)
RestorePolls == \E c \in calls : restorePolls(c)
VotePollFailed == \E c \in calls : votePollFailed(c)

AddAnnouncement ==
  \E t \in Titles, u \in BOOLEAN, c \in TargetChoices : addAnnouncement(t, u, c)

UpdateAnnouncement ==
  \E a \in Ids(announcements), t \in Titles, u \in BOOLEAN, c \in TargetChoices :
    updateAnnouncement(a, t, u, c)

DeleteAnnouncement == \E a \in Ids(announcements) : deleteAnnouncement(a)

AddAnnouncementFailed == \E c \in calls : addAnnouncementFailed(c)
RestoreAnnouncements == \E c \in calls : restoreAnnouncements(c)

AddExam ==
  \E t \in Titles, d \in ExamDates, c \in TargetChoices : addExam(t, d, c)

UpdateExam ==
  \E e \in Ids(exams), t \in Titles, d \in ExamDates, c \in TargetChoices :
    updateExam(e, t, d, c)

DeleteExam == \E e \in Ids(exams) : deleteExam(e)

AddExamFailed == \E c \in calls : addExamFailed(c)
RestoreExams == \E c \in calls : restoreExams(c)

AddResource == \E t \in Titles, c \in TargetChoices : addResource(t, c)

UpdateResource ==
  \E r \in Ids(resources), t \in Titles, c \in TargetChoices : updateResource(r, t, c)

DeleteResource == \E r \in Ids(resources) : deleteResource(r)

AddResourceFailed == \E c \in calls : addResourceFailed(c)
RestoreResources == \E c \in calls : restoreResources(c)

\* What the administrator types for a new user
NewUsers ==
  {[id |-> NewUserId, name |-> "n", email |-> "n", password |-> "pw",
    role |-> ELEVE, classGroup |-> "10A"]}

AddUser == \E u \in NewUsers : addUser(u)

\* The user form hands back a user of the list with the role replaced
UpdateUser ==
  \E i \in 1..Len(users), r \in {RESPONSABLE} :
    updateUser([users[i] EXCEPT !.role = r])

ResetUserPassword == \E u \in Ids(users) : resetUserPassword(u)

DeleteUser == \E u \in Ids(users) : deleteUser(u)

AddUserFailed == \E c \in calls : addUserFailed(c)
RestoreUsers == \E c \in calls : restoreUsers(c)
DeleteUserFailed == \E c \in calls, err \in DeleteErrors : deleteUserFailed(c, err)

SettingsChoices ==
  {[schoolName |-> "Lycee B", themeColor |-> "rose", logoUrl |-> None]}

UpdateSettings == \E st \in SettingsChoices : updateSettings(st)
UpdateSettingsFailed == \E c \in calls : updateSettingsFailed(c)

AddClassGroup == \E n \in {"10C"} : addClassGroup(n)
DeleteClassGroup == \E g \in Ids(classGroups) : deleteClassGroup(g)
AddClassGroupFailed == \E c \in calls : addClassGroupFailed(c)
RestoreClassGroups == \E c \in calls : restoreClassGroups(c)

Remote == \E c \in calls : RemoteOk(c)

\* The loader, common to every specification
Load ==
  \/ FetchSettingsStep
  \/ FetchClassesStep
  \/ FetchUsersStep
  \/ FetchInitAdminStep
  \/ FetchAnnouncementsStep
  \/ FetchExamsStep
  \/ FetchPollsStep
  \/ FetchResourcesStep

\* The optimistic mutation engine on the polls
Next ==
  \/ Load
  \/ Login
  \/ Refresh
  \/ AddPoll
  \/ UpdatePoll
  \/ DeletePoll
  \/ VotePoll
  \/ AddPollFailed
  \/ RestorePolls
  \/ VotePollFailed
  \/ Remote

Spec == Init /\ [][Next]_vars

\* One user voting: votes, their answers, reloads
NextVote ==
  \/ Load
  \/ Login
  \/ Refresh
  \/ VotePoll
  \/ VotePollFailed
  \/ Remote

SpecVote == Init /\ [][NextVote]_vars

\* A store whose items lie on both sides of every bound of the notification
\* deriver and are targeted at nobody, at class 10A or at class 10B.  Dates
\* are relative to the clock reading of the initial state, 0.
FeedStore ==
  [school_settings |-> <<>>, class_groups |-> <<>>, users |-> SeedUsers,
   announcements |->
     << AnnRow(11, 1, TRUE, None), AnnRow(12, 0, FALSE, None),
        AnnRow(13, -(NotifyHours * Hour), TRUE, "10A"),
        AnnRow(14, -(NotifyHours * Hour) - 1, FALSE, None),
        AnnRow(15, -((NotifyHours + 1) * Hour), FALSE, "10B"),
        AnnRow(16, -Hour, FALSE, "10B"), AnnRow(17, Hour, FALSE, None) >>,
   exams |->
     << ExamRow(21, -Day, None), ExamRow(22, -(3 * Hour), None),
        ExamRow(23, 0, "10B"), ExamRow(24, NotifyDays * Day, "10A"),
        ExamRow(25, NotifyDays * Day + 12 * Hour, None),
        ExamRow(26, (NotifyDays + 1) * Day - 1, None),
        ExamRow(27, (NotifyDays + 1) * Day, None), ExamRow(28, Day, "10B") >>,
   polls |->
     << PollRow(31, -(47 * Hour), None, <<1, 0>>, StoredMap([u \in {"s1"} |-> Opt(0, 1)])),
        PollRow(32, -(NotifyHours * Hour) - 1, "10A", <<0, 0>>, StoredMap(EmptyMap)),
        PollRow(33, -((NotifyHours + 1) * Hour), None, <<0, 0>>, StoredMap(EmptyMap)),
        PollRow(34, 1, "10B", <<0, 0>>, StoredMap(EmptyMap)) >>,
   resources |-> << ResourceRow(41, 0, None), ResourceRow(42, 0, "10A") >>,
   has_resources |-> TRUE]

InitFeed ==
  /\ ClientInit
  /\ db \in {FeedStore, FreshStore}
  /\ now = 0

FeedLogins ==
  {<<"faye@eco.com", "passer25">>, <<"r1", "pw">>, <<"s1", "pw">>, <<"s2", "pw">>,
   <<"s2", "passer25">>}

LoginFeed == \E typed \in FeedLogins : handleLogin(typed[1], typed[2])

\* What each user is shown and notified of, and how voting changes it
NextFeed ==
  \/ Load
  \/ LoginFeed
  \/ VotePoll
  \/ Remote

SpecFeed == InitFeed /\ [][NextFeed]_vars

\* A store written by an older version: poll 31 keeps its ledger as an array
\* of user ids, poll 32 has neither ledger nor options, poll 33 is in the
\* present format.
LegacyStore ==
  [school_settings |-> << [id |-> "config", school_name |-> "Lycee", theme_color |-> None, logo_url |-> None] >>,
   class_groups |-> SeedClasses, users |-> SeedUsers,
   announcements |-> <<>>, exams |-> <<>>,
   polls |->
     << PollRow(31, 0, None, <<2, 0>>, StoredArray(<<"s1", "s2">>)),
        [id |-> 32, title |-> "T1", is_anonymous |-> FALSE, created_at |-> 0,
         expires_at |-> PollLifetimeDays * Day, target_class |-> None,
         created_by_id |-> "r1", voted_user_ids |-> StoredNull],
        PollRow(33, 0, None, <<0, 1>>, StoredMap([u \in {"s2"} |-> Opt(0, 2)])) >>,
   resources |-> <<>>, has_resources |-> TRUE]

\* What the browser may hold under the session key: nothing, the record of
\* s1, an outdated record of s1, the record of a user the store does not
\* know, or a string that is not JSON
StoredSessions ==
  { NoSession,
    StoredSession(MapUser(UserRow("s1", ELEVE, "10A"))),
    StoredSession(MapUser(UserRow("s1", ADMIN, "10C"))),
    StoredSession(MapUser(UserRow("ghost", ADMIN, None))),
    GarbageSession }

InitLoad ==
  /\ Mounted
  /\ session \in StoredSessions
  /\ db \in {EngineStore, FreshStore, LegacyStore}
  /\ now = 0

Logout == handleLogout

\* Loading, the session, logging in and out
NextLoad ==
  \/ Load
  \/ Login
  \/ Logout
  \/ Refresh

SpecLoad == InitLoad /\ [][NextLoad]_vars

\* Every select and insert of the loader is answered: a step of the loader
\* that stays possible is taken
SpecLoadFair == SpecLoad /\ WF_vars(Load)

\* The optimistic mutation engine on the announcements
NextAnnouncements ==
  \/ Load
  \/ Login
  \/ AddAnnouncement
  \/ UpdateAnnouncement
  \/ DeleteAnnouncement
  \/ AddAnnouncementFailed
  \/ RestoreAnnouncements
  \/ Remote

SpecAnnouncements == Init /\ [][NextAnnouncements]_vars

\* A store like EngineStore in which a class group is defined
RollbackStore == [EngineStore EXCEPT !.class_groups = << [id |-> 2, name |-> "10A"] >>]

InitRollback ==
  /\ ClientInit
  /\ db \in {RollbackStore, FreshStore}
  /\ now = 0

\* An edit of a poll that retargets it and keeps two options
RetargetPoll ==
  \E p \in Ids(polls), c \in TargetChoices :
    updatePoll(p, FindById(polls, p).title, <<"a", "a">>, FindById(polls, p).isAnonymous, c)

\* An edit of an announcement that changes its urgency
FlagAnnouncement ==
  \E a \in Ids(announcements), u \in BOOLEAN :
    updateAnnouncement(a, FindById(announcements, a).title, u,
                       FindById(announcements, a).targetClass)

\* The updates and deletes of every collection and their catch blocks
NextRollback ==
  \/ Load
  \/ Login
  \/ FlagAnnouncement
  \/ DeleteAnnouncement
  \/ RestoreAnnouncements
  \/ UpdateExam
  \/ DeleteExam
  \/ RestoreExams
  \/ RetargetPoll
  \/ DeletePoll
  \/ RestorePolls
  \/ UpdateResource
  \/ DeleteResource
  \/ RestoreResources
  \/ UpdateUser
  \/ DeleteUser
  \/ RestoreUsers
  \/ DeleteUserFailed
  \/ DeleteClassGroup
  \/ RestoreClassGroups
  \/ Remote

SpecRollback == InitRollback /\ [][NextRollback]_vars

\* What only the administrator does: users, settings, class groups
NextAdmin ==
  \/ Load
  \/ Login
  \/ AddUser
  \/ UpdateUser
  \/ ResetUserPassword
  \/ DeleteUser
  \/ AddUserFailed
  \/ RestoreUsers
  \/ DeleteUserFailed
  \/ UpdateSettings
  \/ UpdateSettingsFailed
  \/ AddClassGroup
  \/ DeleteClassGroup
  \/ AddClassGroupFailed
  \/ RestoreClassGroups
  \/ Remote

SpecAdmin == Init /\ [][NextAdmin]_vars

\* Creates, updates, deletes and votes next to reloads, on a store with or
\* without the resources table
NextOptimistic ==
  \/ Load
  \/ Login
  \/ Refresh
  \/ AddExam
  \/ UpdateExam
  \/ DeleteExam
  \/ AddExamFailed
  \/ RestoreExams
  \/ VotePoll
  \/ VotePollFailed
  \/ AddResource
  \/ AddResourceFailed
  \/ Remote

SpecOptimistic == Init /\ [][NextOptimistic]_vars

\* The user form hands back a user of the list with the name replaced
RenameUser ==
  \E i \in 1..Len(users) : updateUser([users[i] EXCEPT !.name = "renamed"])

\* Announcements next to renames and deletions of their authors
NextAuthor ==
  \/ Load
  \/ Login
  \/ Refresh
  \/ AddAnnouncement
  \/ FlagAnnouncement
  \/ AddAnnouncementFailed
  \/ RestoreAnnouncements
  \/ RenameUser
  \/ DeleteUser
  \/ RestoreUsers
  \/ DeleteUserFailed
  \/ Remote

SpecAuthor == Init /\ [][NextAuthor]_vars

OtherVotePoll ==
  \E p \in Ids(db.polls), i \in 1..MaxOptions :
    /\ HasId(EngineStore.polls, p)
    /\ i <= Len(OtherCopy(p).options)
    /\ otherVotePoll(p, OtherCopy(p).options[i].id)

OtherVoteFailed == \E c \in calls : otherVoteFailed(c)

\* Two clients voting on the polls of one store
NextTwoClients ==
  \/ Load
  \/ Login
  \/ VotePoll
  \/ VotePollFailed
  \/ OtherVotePoll
  \/ OtherVoteFailed
  \/ Remote

SpecTwoClients == Init /\ [][NextTwoClients]_vars

ChangeView == \E v \in Views : changeView(v)
NavigateBack == navigateBack

\* Logging in and out, and moving between the views
NextLogin ==
  \/ Load
  \/ Login
  \/ Logout
  \/ ChangeView
  \/ NavigateBack

SpecLogin == Init /\ [][NextLogin]_vars

\* A store with a responsable to whom no class is assigned (r0), and exams
\* and polls of the whole school, of class 10A and of class 10B, created by
\* the responsable of 10A (21, 31) and by the administrator (the others).
\* Absent values come back from the store as null, in the class_group of a
\* user as in the target_class of an item.
ManageStore ==
  [EngineStore EXCEPT
     !.users = Append(SeedUsers, UserRow("r0", RESPONSABLE, None)),
     !.class_groups = SeedClasses,
     !.exams = << ExamRow(21, Day, None),
                  [ExamRow(22, Day, "10A") EXCEPT !.created_by_id = "admin-init"],
                  [ExamRow(23, Day, "10B") EXCEPT !.created_by_id = "admin-init"] >>,
     !.polls = << PollRow(31, 0, None, <<0, 0>>, StoredMap(EmptyMap)),
                  [PollRow(32, 0, "10A", <<0, 0>>, StoredMap(EmptyMap))
                     EXCEPT !.created_by_id = "admin-init"],
                  [PollRow(33, 0, "10B", <<0, 0>>, StoredMap(EmptyMap))
                     EXCEPT !.created_by_id = "admin-init"] >>]

InitManage ==
  /\ ClientInit
  /\ db \in {ManageStore, FreshStore}
  /\ now = 0

ManageLogins ==
  {<<"faye@eco.com", "passer25">>, <<"r0", "pw">>, <<"r1", "pw">>, <<"s1", "pw">>,
   <<"s2", "pw">>}

LoginManage == \E typed \in ManageLogins : handleLogin(typed[1], typed[2])

\* Who may edit and delete which exam and which poll
NextManage ==
  \/ Load
  \/ LoginManage
  \/ UpdateExam
  \/ DeleteExam
  \/ RetargetPoll
  \/ DeletePoll
  \/ Remote

SpecManage == InitManage /\ [][NextManage]_vars

-----------------------------------------------------------------------------
(* Properties of the polls *)

\* The step is a call of votePoll by the logged-in user
VoteStep == last'.op = "votePoll" /\ nOps' = nOps + 1

\* The entry of the vote ledger of a poll for a user, NoOpt when there is none
LedgerEntry(poll, uid) ==
  IF uid \in DOMAIN poll.userVotes THEN poll.userVotes[uid] ELSE NoOpt

\* The votes counted for an option of a poll, -1 when the poll has no such option
CountOf(poll, optionId) ==
  IF \E i \in 1..Len(poll.options) : poll.options[i].id = optionId
  THEN poll.options[CHOOSE i \in 1..Len(poll.options) : poll.options[i].id = optionId].votes
  ELSE -1

\* C1: in every reachable state of the local cache, for every poll, the sum
\* of its options' vote counts equals the number of entries in its vote ledger.
C1_CountsMatchLedger ==
  \A i \in 1..Len(polls) :
    SumVotes(polls[i].options) = Cardinality(DOMAIN polls[i].userVotes)

\* C2: votePoll(P, O) when the current user's ledger entry in P already is O
\* changes nothing: not the ledger, not an option count, no other field of
\* the cache, and no remote call is issued (nothing in flight, the store and
\* the loader are left alone).
C2_SameOptionIsNoOp ==
  [][ (VoteStep /\ LedgerEntry(FindById(polls, last'.id), currentUser.id) = last'.opt)
        => UNCHANGED <<cacheVars, calls, db, fetches>> ]_vars

\* A vote for the option the user had already chosen has just been cast
C2_Witness ==
  /\ last.op = "votePoll"
  /\ last.prev = last.opt
  /\ HasId(polls, last.id)
  /\ LedgerEntry(FindById(polls, last.id), last.uid) = last.opt

\* C3: votePoll(P, O) when the user's previous selection prev exists and
\* differs from O takes exactly 1 from the count of prev, adds exactly 1 to
\* the count of O, leaves every other count alone and makes the ledger entry
\* O; with no previous selection only O's count changes (+1) and the ledger
\* gains exactly one entry.
C3_VoteMovesOneVote ==
  [][ VoteStep =>
        LET p == FindById(polls, last'.id)
            q == FindById(polls', last'.id)
            uid == currentUser.id
            prev == LedgerEntry(p, uid)
            O == last'.opt
        IN  prev # O =>
              /\ LedgerEntry(q, uid) = O
              /\ Len(q.options) = Len(p.options)
              /\ CountOf(q, O) = CountOf(p, O) + 1
              /\ \A i \in 1..Len(p.options) :
                   p.options[i].id \notin {prev, O} => q.options[i] = p.options[i]
              /\ IF prev # NoOpt
                 THEN /\ CountOf(p, prev) >= 1
                      /\ CountOf(q, prev) = CountOf(p, prev) - 1
                      /\ DOMAIN q.userVotes = DOMAIN p.userVotes
                 ELSE /\ uid \notin DOMAIN p.userVotes
                      /\ DOMAIN q.userVotes = DOMAIN p.userVotes \cup {uid} ]_vars

-----------------------------------------------------------------------------
(* Properties of the access filter *)

\* The items of a collection that are school-wide or meant for the class of
\* the logged-in user
ForOwnClass(coll) ==
  SelectSeq(coll, LAMBDA x : x.targetClass \in {None, currentUser.classGroup})

\* C5: for an Admin or a Responsable each of the four filtered collections is
\* the whole collection; for a Student each is exactly the items whose target
\* class is absent or the student's class group.  Of the two resources, one
\* school-wide (41) and one for class 10A (42), the 10B student s2 sees only
\* the school-wide one; the 10A student, the responsable and the admin see both.
C5_AccessFilter ==
  currentUser # NoUser =>
    /\ currentUser.role \in {ADMIN, RESPONSABLE} =>
         /\ filteredAnnouncements = announcements
         /\ filteredExams = exams
         /\ filteredPolls = polls
         /\ filteredResources = resources
    /\ currentUser.role = ELEVE =>
         /\ filteredAnnouncements = ForOwnClass(announcements)
         /\ filteredExams = ForOwnClass(exams)
         /\ filteredPolls = ForOwnClass(polls)
         /\ filteredResources = ForOwnClass(resources)
    /\ Ids(resources) = {41, 42} =>
         Ids(filteredResources) = IF currentUser.id = "s2" THEN {41} ELSE {41, 42}

\* The 10B student is logged in, everything is loaded and every collection
\* holds an item hidden from them
C5_Witness ==
  /\ currentUser.id = "s2"
  /\ Ids(resources) = {41, 42}
  /\ Len(filteredAnnouncements) < Len(announcements)
  /\ Len(filteredExams) < Len(exams)
  /\ Len(filteredPolls) < Len(polls)
  /\ Ids(filteredResources) = {41}

-----------------------------------------------------------------------------
(* Properties of the notification deriver *)

\* How many items of a feed carry the id
ItemCount(feed, id) == Cardinality({i \in 1..Len(feed) : feed[i].id = id})

\* The items of a feed of one type
ItemsOfType(feed, type) == {i \in 1..Len(feed) : feed[i].type = type}

\* C6, as claimed: a visible exam has exactly one alert when its date lies in
\* [now, now + 7 days], bounds included, and none otherwise.
C6_AlertIffWithinSevenDays ==
  LET feed == notifications IN
  currentUser # NoUser =>
    \A i \in 1..Len(exams) :
      ItemCount(feed, <<"exam", exams[i].id>>) =
        IF /\ HasId(filteredExams, exams[i].id)
           /\ exams[i].date >= now
           /\ exams[i].date <= now + NotifyDays * Day
        THEN 1 ELSE 0

\* C6, amended: a visible exam has exactly one alert when its date is less
\* than one day before now and less than 8 days after now (the number of
\* whole days from now to the date, rounded toward zero, is in 0..7), and
\* none otherwise; the alerts of the feed are these and no others.
C6_AlertIffWholeDaysWithinSeven ==
  LET feed == notifications IN
  currentUser # NoUser =>
    /\ \A i \in 1..Len(exams) :
         ItemCount(feed, <<"exam", exams[i].id>>) =
           IF /\ HasId(filteredExams, exams[i].id)
              /\ exams[i].date > now - Day
              /\ exams[i].date < now + (NotifyDays + 1) * Day
           THEN 1 ELSE 0
    /\ \A n \in ItemsOfType(feed, "alert") :
         \E i \in 1..Len(exams) : feed[n].id = <<"exam", exams[i].id>>

\* Somebody is shown an alert for the exam of three hours ago (22), for the
\* exam in 7 days (24) and for the exam in 7 days and a half (25), and none
\* for the exam of yesterday (21) nor for the exam in 8 days (27)
C6_Witness ==
  LET feed == notifications IN
  /\ currentUser # NoUser
  /\ {21, 22, 24, 25, 27} \subseteq Ids(filteredExams)
  /\ ItemCount(feed, <<"exam", 22>>) = 1
  /\ ItemCount(feed, <<"exam", 24>>) = 1
  /\ ItemCount(feed, <<"exam", 25>>) = 1
  /\ ItemCount(feed, <<"exam", 21>>) = 0
  /\ ItemCount(feed, <<"exam", 27>>) = 0

\* The title of an info item carries the prefix of the announcement's urgency
PrefixMatchesUrgency(feed) ==
  \A n \in ItemsOfType(feed, "info") :
    \E i \in 1..Len(announcements) :
      /\ feed[n].id = <<"ann", announcements[i].id>>
      /\ feed[n].title[1] =
           IF announcements[i].isUrgent THEN "URGENT: " ELSE "Annonce: "

\* C7, as claimed: a visible announcement has exactly one info item when its
\* age, now minus its date, is within [0, 48 hours], and none otherwise; the
\* title is prefixed "URGENT: " exactly when the announcement is urgent and
\* "Annonce: " otherwise.
C7_InfoIffAgeWithin48Hours ==
  LET feed == notifications IN
  currentUser # NoUser =>
    /\ \A i \in 1..Len(announcements) :
         ItemCount(feed, <<"ann", announcements[i].id>>) =
           IF /\ HasId(filteredAnnouncements, announcements[i].id)
              /\ now - announcements[i].date >= 0
              /\ now - announcements[i].date <= NotifyHours * Hour
           THEN 1 ELSE 0
    /\ PrefixMatchesUrgency(feed)

\* C7, amended: a visible announcement has exactly one info item when its age
\* is more than minus one hour and less than 49 hours (the number of whole
\* hours of its age, rounded toward zero, is in 0..48), and none otherwise;
\* the title is prefixed "URGENT: " exactly when the announcement is urgent
\* and "Annonce: " otherwise.
C7_InfoIffWholeHoursWithin48 ==
  LET feed == notifications IN
  currentUser # NoUser =>
    /\ \A i \in 1..Len(announcements) :
         ItemCount(feed, <<"ann", announcements[i].id>>) =
           IF /\ HasId(filteredAnnouncements, announcements[i].id)
              /\ now - announcements[i].date > -Hour
              /\ now - announcements[i].date < (NotifyHours + 1) * Hour
           THEN 1 ELSE 0
    /\ PrefixMatchesUrgency(feed)

\* Somebody is shown an item for the urgent announcement dated a moment after
\* now (11) and for the plain one of a moment more than 48 hours ago (14),
\* and none for the one dated an hour after now (17)
C7_Witness ==
  LET feed == notifications IN
  /\ currentUser # NoUser
  /\ {11, 12, 14, 17} \subseteq Ids(filteredAnnouncements)
  /\ ItemCount(feed, <<"ann", 11>>) = 1
  /\ ItemCount(feed, <<"ann", 12>>) = 1
  /\ ItemCount(feed, <<"ann", 14>>) = 1
  /\ ItemCount(feed, <<"ann", 17>>) = 0
  /\ \E n \in ItemsOfType(feed, "info") : feed[n].title[1] = "URGENT: "
  /\ \E n \in ItemsOfType(feed, "info") : feed[n].title[1] = "Annonce: "

\* C8, as claimed: a visible poll has exactly one success item when it was
\* created within the last 48 hours and the ledger has no entry for the
\* current user, and none otherwise.
C8_SuccessIffCreatedWithin48Hours ==
  LET feed == notifications IN
  currentUser # NoUser =>
    \A i \in 1..Len(polls) :
      ItemCount(feed, <<"poll", polls[i].id>>) =
        IF /\ HasId(filteredPolls, polls[i].id)
           /\ now - polls[i].createdAt >= 0
           /\ now - polls[i].createdAt <= NotifyHours * Hour
           /\ currentUser.id \notin DOMAIN polls[i].userVotes
        THEN 1 ELSE 0

\* C8, amended: a visible poll has exactly one success item when its age is
\* more than minus one hour and less than 49 hours (the number of whole hours
\* of its age, rounded toward zero, is in 0..48) and the ledger has no entry
\* for the current user, and none otherwise; in the state the user's vote on
\* a poll leads to, the feed has no item for that poll.
C8_SuccessIffWholeHoursWithin48 ==
  LET feed == notifications IN
  currentUser # NoUser =>
    /\ \A i \in 1..Len(polls) :
         ItemCount(feed, <<"poll", polls[i].id>>) =
           IF /\ HasId(filteredPolls, polls[i].id)
              /\ now - polls[i].createdAt > -Hour
              /\ now - polls[i].createdAt < (NotifyHours + 1) * Hour
              /\ currentUser.id \notin DOMAIN polls[i].userVotes
           THEN 1 ELSE 0
    /\ last.op = "votePoll" => ItemCount(feed, <<"poll", last.id>>) = 0
    /\ \A n \in ItemsOfType(feed, "success") :
         \E i \in 1..Len(polls) : feed[n].id = <<"poll", polls[i].id>>

\* The user has just cast a first vote on the poll created a moment more
\* than 48 hours ago (32): its item is gone, the item of the poll created a
\* moment after now (34) or that of the poll of 47 hours ago (31) is shown
C8_Witness ==
  LET feed == notifications IN
  /\ last.op = "votePoll"
  /\ last.prev = NoOpt
  /\ last.id = 32
  /\ ItemCount(feed, <<"poll", 32>>) = 0
  /\ ItemCount(feed, <<"poll", 31>>) + ItemCount(feed, <<"poll", 34>>) >= 1
  /\ ItemCount(feed, <<"poll", 33>>) = 0

\* C9: the feed is ordered by timestamp descending: of any two consecutive
\* items the first one's timestamp is greater than or equal to the second's.
C9_FeedSortedDescending ==
  LET feed == notifications IN
  \A i \in 1..(Len(feed) - 1) :
    feed[i].timestamp >= feed[i + 1].timestamp

\* A feed of exam, announcement and poll items with different timestamps
C9_Witness ==
  LET feed == notifications IN
  /\ ItemsOfType(feed, "alert") # {}
  /\ ItemsOfType(feed, "info") # {}
  /\ ItemsOfType(feed, "success") # {}
  /\ \E i, j \in 1..Len(feed) :
       feed[i].timestamp > feed[j].timestamp

\* The collection an item of the feed was derived from
SourceOf(item) ==
  CASE item.id[1] = "exam" -> exams
    [] item.id[1] = "ann" -> announcements
    [] item.id[1] = "poll" -> polls

\* C25: the feed is empty whenever no user is logged in, and every item of a
\* Student's feed comes from an exam, announcement or poll of the cache whose
\* target class is absent or the student's class group; the feed is a value
\* computed from the cache and the current user, no step of the program.
C25_FeedRespectsAccess ==
  LET feed == notifications IN
  /\ currentUser = NoUser => feed = <<>>
  /\ (currentUser # NoUser /\ currentUser.role = ELEVE) =>
       \A n \in 1..Len(feed) :
         /\ HasId(SourceOf(feed[n]), feed[n].id[2])
         /\ FindById(SourceOf(feed[n]), feed[n].id[2]).targetClass
              \in {None, currentUser.classGroup}

\* The 10A student has a feed, and the cache holds an exam (23), an
\* announcement (16) and a poll (34) of class 10B, each inside its window
C25_Witness ==
  LET feed == notifications IN
  /\ currentUser # NoUser
  /\ currentUser.id = "s1"
  /\ currentUser.role = ELEVE
  /\ Len(feed) > 0
  /\ HasId(exams, 23) /\ ExamDue(FindById(exams, 23))
  /\ HasId(announcements, 16) /\ AnnouncementRecent(FindById(announcements, 16))
  /\ HasId(polls, 34) /\ PollAwaitingVote(FindById(polls, 34))
  /\ FindById(exams, 23).targetClass = "10B"

-----------------------------------------------------------------------------
(* Properties of the loader *)

\* The step takes a running load from one of the awaits `from` to the await `to`
FetchMoved(from, to) ==
  \E f \in fetches : f.pc \in from /\ \E g \in fetches' : g.fid = f.fid /\ g.pc = to

\* The polls of the store as a load maps them
StoredPolls == [i \in 1..Len(db.polls) |-> MapPoll(db.polls[i])]

\* The selects whose error ends the load
FatalSelects == {"users", "announcements", "exams", "polls"}

\* C16: a load sets the current user from the stored session only when the
\* session's id is the id of a user just loaded, and then to the loaded
\* record, leaving the key in place; a stored session that is not parsable or
\* matches no loaded user logs nobody in and its key is removed.  Logout
\* removes the key, a successful login writes the user logged in under it,
\* and no other step touches the key or the current user.
C16_SessionValidatedOnLoad ==
  [][ IF FetchMoved({"users", "initAdmin"}, "announcements")
      THEN IF session.kind = "user" /\ HasId(users', session.user.id)
           THEN /\ currentUser' = FindById(users', session.user.id)
                /\ session' = session
           ELSE /\ currentUser' = currentUser
                /\ session' = NoSession
      ELSE IF last'.op = "handleLogout"
      THEN session' = NoSession /\ currentUser' = NoUser
      ELSE IF last'.op = "loginOk"
      THEN session' = StoredSession(currentUser') /\ HasId(users, currentUser'.id)
      ELSE UNCHANGED <<session, currentUser>> ]_vars

\* Nobody has typed a password, and s1 is logged in with the record the
\* store holds although the browser held an outdated record of s1
C16_Witness ==
  /\ nOps = 0
  /\ currentUser = MapUser(UserRow("s1", ELEVE, "10A"))
  /\ session = StoredSession(MapUser(UserRow("s1", ADMIN, "10C")))

\* C17: the loader inserts the default administrator only when it has read
\* an empty user table, a successful insert adds exactly that one record to
\* the table and makes the local users exactly the administrator; when the
\* table read is not empty nothing is inserted and the local users are the
\* users loaded.
C17_BootstrapAdmin ==
  [][ /\ FetchMoved({"users"}, "initAdmin") => db.users = <<>> /\ db' = db
      /\ FetchMoved({"users"}, "announcements") =>
           /\ db.users # <<>>
           /\ db' = db
           /\ users' = [i \in 1..Len(db.users) |-> MapUser(db.users[i])]
      /\ FetchMoved({"initAdmin"}, "announcements") =>
           \/ db' = db
           \/ /\ db' = [db EXCEPT !.users = Append(db.users, db'.users[Len(db'.users)])]
              /\ MapUser(db'.users[Len(db'.users)]) = DEFAULT_ADMIN
              /\ users' = <<DEFAULT_ADMIN>> ]_vars

\* The store was empty, and now it and the local users hold the administrator
C17_Witness ==
  /\ Len(db.users) = 1
  /\ users = <<DEFAULT_ADMIN>>
  /\ \A f \in fetches : f.pc \notin {"settings", "classes", "users", "initAdmin"}

\* C18: when the polls are loaded, a poll whose stored ledger is not a mapping
\* (an array, or nothing) gets an empty local ledger and a stored mapping is
\* the local ledger as it is; the stored option list, counts included, is
\* taken as it is, and is the empty list when the row has none.
C18_LegacyLedgerNormalised ==
  [][ FetchMoved({"polls"}, "resources") =>
        /\ Len(polls') = Len(db.polls)
        /\ \A i \in 1..Len(db.polls) :
             /\ polls'[i].id = db.polls[i].id
             /\ polls'[i].userVotes =
                  IF db.polls[i].voted_user_ids.kind = "map"
                  THEN db.polls[i].voted_user_ids.map
                  ELSE EmptyMap
             /\ polls'[i].options =
                  IF "options" \in DOMAIN db.polls[i] THEN db.polls[i].options ELSE <<>> ]_vars

\* The polls of the older store are loaded: the one with the array ledger has
\* no entry and two votes counted, the one without options has none, the one
\* in the present format has its entry
C18_Witness ==
  /\ Len(polls) = 3
  /\ polls[1].userVotes = EmptyMap /\ SumVotes(polls[1].options) = 2
  /\ polls[2].userVotes = EmptyMap /\ polls[2].options = <<>>
  /\ DOMAIN polls[3].userVotes = {"s2"}

\* C19, as claimed: a load, the one of the mount or a later one, whose
\* select on resources was answered with 42P01 ends with no error set,
\* loading over and no local resources.
C19_MissingTableGivesNoResources ==
  (last.op = "loadEnd" /\ "resources_42P01" \in last.failed /\ last.failed \cap FatalSelects = {})
    => dbError = None /\ ~isLoading /\ resources = <<>>

\* C19, amended: the answer 42P01 to the select on resources ends the load
\* without setting the error and without touching any collection, the local
\* resources included, which stay as they were.  The load of the mount
\* therefore ends with no error, loading over, no local resources and the
\* users, announcements, exams and polls of the store; a later reload ends
\* with whatever resources the cache held.
C19_MissingTableLeavesResources ==
  /\ [](( /\ last.op = "loadEnd" /\ last.cause = "mount"
          /\ "resources_42P01" \in last.failed /\ last.failed \cap FatalSelects = {} )
        => /\ dbError = None /\ ~isLoading /\ resources = <<>>
           /\ users = [i \in 1..Len(db.users) |-> MapUser(db.users[i])]
           /\ announcements = [i \in 1..Len(db.announcements) |-> MapAnnouncement(db.announcements[i])]
           /\ exams = [i \in 1..Len(db.exams) |-> MapExam(db.exams[i])]
           /\ polls = StoredPolls)
  /\ [][ (last'.op = "loadEnd" /\ "resources_42P01" \in last'.failed) =>
           /\ ~isLoading'
           /\ UNCHANGED <<dbError, resources, users, announcements, exams, polls,
                          classGroups, schoolSettings, currentUser>> ]_vars

\* A reload has ended on a store without the resources table: no error is
\* set, and the resource created just before is still in the local list
C19_Witness ==
  /\ last.op = "loadEnd" /\ last.cause = "refresh"
  /\ "resources_42P01" \in last.failed
  /\ dbError = None /\ ~isLoading
  /\ resources # <<>>

\* C20, as claimed: when a select of the load of the mount has failed, other
\* than the select on resources with 42P01, the load ends with the error set
\* and loading over.
C20_AnyLoadFailureIsFatal ==
  (last.op = "loadEnd" /\ last.cause = "mount" /\ last.failed \ {"resources_42P01"} # {})
    => dbError # None /\ ~isLoading

\* C20, amended: the load of the mount ends with loading over, and with the
\* error set exactly when the select on users, announcements, exams or polls
\* has failed; a failure of the select on the settings, on the class groups
\* or on the resources (42P01 or not) does not set it.  With the error set
\* nobody can log in or use the views.
C20_FatalIffCoreSelectFailed ==
  /\ (last.op = "loadEnd" /\ last.cause = "mount") =>
       /\ ~isLoading
       /\ dbError # None <=> last.failed \cap FatalSelects # {}
  /\ dbError # None => ~Ready /\ ~ENABLED Login

\* The load of the mount has ended with no error set although the selects on
\* the settings and on the resources had failed
C20_Witness ==
  /\ last.op = "loadEnd" /\ last.cause = "mount"
  /\ {"school_settings", "resources"} \subseteq last.failed
  /\ dbError = None
  /\ ~isLoading

-----------------------------------------------------------------------------
(* Properties of the failure compensations *)

Tables == {"announcements", "exams", "polls", "resources", "users", "class_groups"}

\* The local collection that caches a table
LocalOf(table) ==
  CASE table = "announcements" -> announcements
    [] table = "exams" -> exams
    [] table = "polls" -> polls
    [] table = "resources" -> resources
    [] table = "users" -> users
    [] table = "class_groups" -> classGroups

\* The updates and deletes that take a snapshot (a vote takes none)
Snapshotting(c) == c.verb \in {"update", "delete"} /\ c.op # "votePoll"

\* The step is the catch block of call c
Caught(c) == c \in calls /\ c \notin calls' /\ last'.op = "failed" /\ last'.id = c.cid

\* C11: an update or delete of an announcement, exam, poll, resource, user
\* or class group takes as its snapshot the collection as it is just before
\* the optimistic change, and the catch block of a failed one makes the
\* collection equal to that snapshot and alters no other collection.
C11_FailureRestoresSnapshot ==
  [][ /\ \A c \in calls' \ calls :
           Snapshotting(c) => c.snapshot = LocalOf(c.table)
      /\ \A c \in calls :
           (Caught(c) /\ Snapshotting(c)) =>
             /\ LocalOf(c.table)' = c.snapshot
             /\ \A t \in Tables \ {c.table} : LocalOf(t)' = LocalOf(t)
             /\ schoolSettings' = schoolSettings ]_vars

\* A delete of a resource was followed by an edit of another collection and
\* then failed: the resource is back, the edit is kept
C11_Witness ==
  /\ last.op = "failed" /\ last.cause = "deleteResource"
  /\ HasId(resources, 41)
  /\ \E c \in calls : c.op = "updateExam" /\ c.cid > last.id

\* C12, as claimed: when the reload that a failed vote has triggered ends
\* without a load error, the local polls are the polls of the store.
C12_ReloadEndsEqualToStore ==
  (last.op = "loadEnd" /\ last.cause = "votePoll" /\ dbError = None)
    => polls = StoredPolls

\* C12, amended: the catch of a failed vote leaves the local polls as they
\* are (no snapshot is restored) and starts a full reload; the step of that
\* reload which receives the polls makes the local polls the polls the store
\* holds at that moment, and the end of the reload does not change them.
\* (A call applied to the store after that step is not reflected.)
C12_FailedVoteReloads ==
  [][ /\ (last'.op = "failed" /\ last'.cause = "votePoll") =>
           /\ polls' = polls
           /\ \E f \in fetches' \ fetches : f.cause = "votePoll" /\ f.pc = "settings"
      /\ \A f \in fetches :
           (f.cause = "votePoll" /\ f.pc = "polls"
              /\ \E g \in fetches' : g.fid = f.fid /\ g.pc = "resources")
             => polls' = StoredPolls
      /\ (last'.op = "loadEnd" /\ last'.cause = "votePoll") => polls' = polls ]_vars

\* The reload after a failed vote has ended: the user has chosen an option,
\* and neither the local polls nor the store hold a vote of theirs
C12_Witness ==
  /\ last.op = "loadEnd" /\ last.cause = "votePoll" /\ dbError = None
  /\ chosen # EmptyMap
  /\ polls = StoredPolls
  /\ \A i \in 1..Len(polls) : currentUser.id \notin DOMAIN polls[i].userVotes

\* C13: the catch block of a failed deleteUser makes the users equal to the
\* snapshot and starts a full reload whatever the error is, and it reports
\* the error with the cascade hint exactly when the error's code is 23503
\* or its message contains 'foreign key constraint', and with the plain
\* message otherwise.
C13_FailedDeleteUserRestoresAndReloads ==
  [][ \A c \in calls :
        (Caught(c) /\ c.op = "deleteUser") =>
          /\ users' = c.snapshot
          /\ \E f \in fetches' \ fetches : f.cause = "deleteUser" /\ f.pc = "settings"
          /\ IF last'.error.code = "23503" \/ last'.error.message = FkMessage
             THEN last'.alert = "Impossible de supprimer : script SQL Cascade"
             ELSE last'.alert = "Impossible de supprimer l'utilisateur" ]_vars

\* The delete of s1 has failed with an error that has no code and whose
\* message names the constraint: s1 is back in the list, the hint was given
\* and the reload is starting
C13_Witness ==
  /\ last.op = "failed" /\ last.cause = "deleteUser"
  /\ last.error = [code |-> None, message |-> FkMessage]
  /\ last.alert = "Impossible de supprimer : script SQL Cascade"
  /\ HasId(users, "s1") /\ ~HasId(users, "s2")
  /\ \E f \in fetches : f.cause = "deleteUser"

\* C15: the catch block of every failed mutation, those of the settings,
\* the class groups and the users included, takes the optimistic value back
\* (a created item is removed, a snapshot is restored, the settings are no
\* longer the ones submitted) or starts a reload.
C15_FailedMutationIsCompensated ==
  [][ \A c \in calls :
        Caught(c) =>
          \/ \E f \in fetches' \ fetches : f.pc = "settings"
          \/ c.verb = "insert" /\ ~HasId(LocalOf(c.table)', KeyOf(c))
          \/ Snapshotting(c) /\ LocalOf(c.table)' = c.snapshot
          \/ c.verb = "upsert" /\ schoolSettings' # MapSettings(c.payload) ]_vars

\* The row of a table that a local item stands for
RowOf(table, item) ==
  CASE table = "announcements" -> AnnouncementInsertRow(item)
    [] table = "exams" -> ExamInsertRow(item)
    [] table = "polls" ->
         [PollInsertRow(item) EXCEPT !.voted_user_ids = StoredMap(item.userVotes)]
    [] table = "resources" -> ResourceInsertRow(item)
    [] table = "users" -> UserInsertRow(item)
    [] table = "class_groups" -> item

\* The local cache shows what call c asks the store for
Visible(c) ==
  IF c.verb = "upsert" THEN schoolSettings = MapSettings(c.payload)
  ELSE IF c.verb = "delete" THEN ~HasId(LocalOf(c.table), KeyOf(c))
  ELSE /\ HasId(LocalOf(c.table), KeyOf(c))
       /\ LET row == RowOf(c.table, FindById(LocalOf(c.table), KeyOf(c)))
          IN  \A f \in DOMAIN c.payload : row[f] = c.payload[f]

CompensatingReloads == {"votePoll", "deleteUser"}

\* C21, as claimed: the reload that the catch block of a failed vote or of a
\* failed user deletion has started ends, like the catch blocks themselves,
\* with no load error set.
C21_CompensationsNeverFatal ==
  /\ last.op = "failed" => dbError = None
  /\ (last.op = "loadEnd" /\ last.cause \in CompensatingReloads) => dbError = None

\* C21, amended: the catch block of a failed mutation never sets the load
\* error (the one that starts a reload clears it), leaves loading and the
\* current user as they are; the error appears only at the end of a load, and the reload started by a catch
\* block can end with it.
C21_CatchBlocksNeverFatal ==
  [][ /\ last'.op = "failed" =>
           /\ dbError' = None \/ dbError' = dbError
           /\ UNCHANGED <<isLoading, currentUser>>
           /\ last'.cause \in {"votePoll", "deleteUser"} => dbError' = None
      /\ (dbError' # None /\ dbError' # dbError) => last'.op = "loadEnd" ]_vars

\* The reload after a failed vote has ended with the load error set: the
\* views are gone although a user is logged in
C21_Witness ==
  /\ last.op = "loadEnd" /\ last.cause = "votePoll"
  /\ dbError # None
  /\ currentUser # NoUser /\ ~Ready

VoteCalls == {"votePoll", "otherVote"}

C24_LoginIffCredentialsMatch ==
  [][ last'.op \in {"loginOk", "loginFailed"} =>
        LET email == last'.typed[1]
            password == last'.typed[2]
            match == {i \in 1..Len(users) :
                        /\ Lower(users[i].email) = Lower(email)
                        /\ users[i].password = password}
        IN  /\ last'.op = "loginOk" <=> match # {}
            /\ last'.op = "loginOk" =>
                 \E i \in match :
                   /\ \A j \in match : i <= j
                   /\ currentUser' = users[i]
                   /\ session' = StoredSession(users[i])
                   /\ currentView' = "DASHBOARD"
                   /\ viewHistory' = <<>>
            /\ last'.op = "loginFailed" =>
                 UNCHANGED <<currentUser, users, announcements, exams, polls,
                             resources, schoolSettings, classGroups, isLoading,
                             dbError, session, currentView, viewHistory, db>> ]_vars

\* After two operations at least (a logout among them) the administrator
\* has logged in typing the email in capitals: the dashboard is shown
C24_Witness ==
  /\ last.op = "loginOk" /\ last.typed = <<"FAYE@ECO.COM", "passer25">>
  /\ currentUser.email = "faye@eco.com"
  /\ nOps >= 2
  /\ currentView = "DASHBOARD" /\ viewHistory = <<>>

\* The ids of the rows of a table of the store
StoredIds(table) == {db[table][i].id : i \in 1..Len(db[table])}

\* C26: in every state in which no remote call is outstanding, each local
\* collection (announcements, exams, polls, resources, users, class groups)
\* holds exactly the ids of the rows of its table in the store, whatever the
\* interleaving of creates, updates, deletes and of their answers.  Stated
\* for the states the answers lead to: when the answer to a create, update
\* or delete (success or failure) leaves no call and no reload outstanding,
\* the local collection of its table holds exactly the ids of the table.
C26_QuiescentCacheMatchesStore ==
  [][ \A c \in calls :
        (c \notin calls' /\ calls' = {} /\ fetches' = {} /\ c.table \in Tables) =>
          Ids(LocalOf(c.table))' = StoredIds(c.table)' ]_vars

\* The ids of the options of a poll
OptionIds(poll) == {poll.options[i].id : i \in 1..Len(poll.options)}

\* C27: for every poll of the local cache, every option id held in its vote
\* ledger is the id of one of the poll's current options, after any sequence
\* of votes and poll edits.
C27_LedgerPointsAtOptions ==
  \A i \in 1..Len(polls) :
    \A u \in DOMAIN polls[i].userVotes :
      polls[i].userVotes[u] \in OptionIds(polls[i])

\* C28: whenever a user is logged in, the local users hold a user with the
\* id of the current user, after any sequence of logins, user deletions (an
\* administrator deleting their own account included) and reloads.
C28_CurrentUserIsAUser ==
  currentUser # NoUser => HasId(users, currentUser.id)

\* The numbers the runs of the loader are given
FetchIds == 0..(MaxOps + 1)

\* The run of the loader numbered fid has started and not ended
Running(fid) == \E f \in fetches : f.fid = fid

\* C29: when every remote call is answered, every run of the loader ends,
\* and on success as on failure it ends with isLoading false; once isLoading
\* is false no step makes it true again, so a later reload never brings the
\* full-screen loader back.
C29_LoaderTerminates ==
  /\ \A fid \in FetchIds : Running(fid) ~> (~Running(fid) /\ ~isLoading)
  /\ [][ /\ (\E f \in fetches : ~Running(f.fid)') => ~isLoading'
         /\ ~isLoading => ~isLoading' ]_vars

\* A reload asked for after the first load has ended, isLoading being false,
\* with one of its selects failed
C29_Witness ==
  /\ last.op = "loadEnd"
  /\ last.cause = "refresh"
  /\ last.failed # {}
  /\ fetches = {}
  /\ ~isLoading

\* The users the claim entitles to the menu of an item: an administrator,
\* the item's creator, a responsable of the class the item targets
Entitled(x) ==
  \/ currentUser.role = ADMIN
  \/ x.createdById = currentUser.id
  \/ /\ currentUser.role = RESPONSABLE
     /\ x.targetClass # None
     /\ x.targetClass = currentUser.classGroup

\* C30: the edit/delete menu of an exam or a poll is offered only to an
\* Admin, to the item's creator, or to a Responsable whose class group is the
\* item's target class: never to a Student who did not create the item, and
\* never to a Responsable for an item of another class or of the whole
\* school that they did not create.
C30_MenuOnlyForEntitled ==
  Ready =>
    /\ \A i \in 1..Len(filteredExams) :
         canManage(filteredExams[i]) => Entitled(filteredExams[i])
    /\ \A i \in 1..Len(filteredPolls) :
         canManage(filteredPolls[i]) => Entitled(filteredPolls[i])

\* C10: once the remote insert of a create has failed, the local collection
\* does not hold the created id, and the id does not come back later,
\* whatever the other pending mutations of the collection and their answers.
C10_FailedCreateStaysOut ==
  \A id \in failedCreates :
    ~HasId(announcements, id) /\ ~HasId(polls, id)

====
